---- MODULE Spec2Model ----
(***************************************************************************)
(* Model of the workflow execution engine: the WorkflowValidator, the      *)
(* WorkflowExecutor (execute / executeSteps / executeStep /                *)
(* executeWithRetry), the WorkflowExecution record helpers, the            *)
(* StepRegistry, the template and expression engines, and the utilities    *)
(* CircuitBreaker, RateLimiter and Cache.                                  *)
(*                                                                         *)
(* Step ids are strings as in the source; the empty string stands for an   *)
(* absent (undefined) optional id, which JavaScript treats as falsy just   *)
(* like "".  Optional numbers (maxExecutionTimeMs, options.maxSteps,        *)
(* options.timeoutMs, retry.maxAttempts, retry.backoffMs) use 0 for        *)
(* "absent": the source reads all of them through `x || default`, which    *)
(* does not tell 0 from undefined.                                         *)
(***************************************************************************)
EXTENDS Integers, Sequences, FiniteSets, TLC

VARIABLES
    workflow,       \* the Workflow handed to execute (never written)
    options,        \* the ExecutionOptions handed to execute (never written)
    pc,             \* position of the execute call
    execution,      \* the WorkflowExecution record
    context,        \* TemplateContext.steps: step id -> stored output
    currentStepId,  \* executeSteps: let currentStepId
    stepsExecuted,  \* executeSteps: let stepsExecuted
    startTime,      \* executeSteps: const startTime
    now,            \* the wall clock (Date.now())
    attempt,        \* executeWithRetry: let attempt
    lastError,      \* executeWithRetry: let lastError (0 = undefined)
    result,         \* executeStep: const result (the StepResult)
    thrown,         \* the error in flight / delivered to the caller
    calls,          \* handler.execute invocations for the current step
    slept,          \* backoff sleeps performed for the current step
    self,           \* the execute call whose frame the variables above hold
    suspended,      \* the frames of the other execute calls in progress
    validations,    \* the results of the validate calls made on workflow
    handlers,       \* StepRegistry: private handlers (type -> handler)
    registryOps,    \* the register / unregister / clear calls made so far
    lookup,         \* the last get / getHandler call and what it answered
    template,       \* the string handed to resolveTemplate
    templateContext,    \* the TemplateContext handed to resolveTemplate
    resolved,       \* what the resolveTemplate call made and returned
    expression,     \* the string handed to evaluateExpression
    expressionContext,  \* the TemplateContext handed to evaluateExpression
    evaluated,      \* what the evaluateExpression call returned
    clock,          \* Date.now() as the utilities below read it
    breakerConfig,  \* CircuitBreaker: private config
    breaker,        \* CircuitBreaker: state, failures, lastFailureTime,
                    \* successCount
    inFlight,       \* CircuitBreaker.execute calls awaiting fn()
    history,        \* how the fn() calls made through the breaker ended
    outcome,        \* the last step of an execute call on the breaker
    limiterConfig,  \* RateLimiter: private config
    requests,       \* RateLimiter: private requests (key -> timestamps)
    answers,        \* the checkLimit calls made and what they answered
    cacheOptions,   \* Cache: ttlMs and maxSize
    store,          \* Cache: private store, in insertion order
    accesses        \* the keys set or read, the most recent access last

vars == <<workflow, options, pc, execution, context, currentStepId,
          stepsExecuted, startTime, now, attempt, lastError, result,
          thrown, calls, slept, self, suspended, validations,
          handlers, registryOps, lookup, template, templateContext,
          resolved, expression, expressionContext, evaluated, clock,
          breakerConfig, breaker, inFlight, history, outcome,
          limiterConfig, requests, answers, cacheOptions, store, accesses>>

(* the state of a WorkflowExecutor and of its execute calls *)
executorVars ==
    <<workflow, options, pc, execution, context, currentStepId,
      stepsExecuted, startTime, now, attempt, lastError, result,
      thrown, calls, slept, self, suspended>>

(* the state of the components that are exercised on their own *)
validatorVars == <<validations>>

registryVars == <<handlers, registryOps, lookup>>

templateVars == <<template, templateContext, resolved>>

expressionVars == <<expression, expressionContext, evaluated>>

breakerVars == <<breakerConfig, breaker, inFlight, history, outcome>>

limiterVars == <<limiterConfig, requests, answers>>

cacheVars == <<cacheOptions, store, accesses>>

(* the utilities that read the clock *)
utilityVars == <<clock, breakerVars, limiterVars, cacheVars>>

componentVars ==
    <<validatorVars, registryVars, templateVars, expressionVars, utilityVars>>

----------------------------------------------------------------------------
(* Bounds of the model *)

MaxAttempts == 3        \* largest retry.maxAttempts a step declares
MaxDelay == 1           \* longest time one handler call takes
MaxValidations == 2     \* validate calls made on one workflow
MaxOps == 3             \* register / unregister / clear calls on one registry
MaxSegments == 2        \* member and index accesses after the root of a path
MaxLexemes == 3         \* lexemes of an expression written without a shape
MaxTime == 3            \* latest reading of the utilities' clock
MaxCalls == 5           \* calls made on one breaker, limiter or cache
MaxInFlight == 2        \* breaker calls awaiting fn() at the same time
MaxHits == 2            \* largest hit count a cache entry reaches

(* Program constants *)

DefaultMaxAttempts == 1
DefaultBackoffMs == 1000
SuccessesToClose == 3
DefaultTtlMs == 300000
DefaultMaxSize == 1000

NoStep == ""
NoWorkflow ==
    [steps |-> <<>>, entryStepId |-> NoStep, maxSteps |-> 0,
     maxExecutionTimeMs |-> 0]
NoHandler == [kind |-> "undefined", id |-> "", type |-> ""]
NoLookup == [call |-> "", type |-> "", handler |-> NoHandler, threw |-> FALSE]
NoResolved ==
    [call |-> "", threw |-> FALSE, result |-> <<>>, replacements |-> <<>>]
NoEvaluated == [call |-> "", threw |-> FALSE, result |-> FALSE]
StepIdSeq == <<"s1", "s2">>
RegisteredTypes == {"LLM", "CONDITION"}

----------------------------------------------------------------------------
(* Small helpers *)

RECURSIVE SeqFilterIds(_, _)
SeqFilterIds(s, keep) ==
    IF s = <<>> THEN <<>>
    ELSE IF Head(s) \in keep THEN <<Head(s)>> \o SeqFilterIds(Tail(s), keep)
    ELSE SeqFilterIds(Tail(s), keep)

(* Array.prototype.find / findIndex on the step list: first match, 0 = none *)
FindStepIndex(steps, stepId) ==
    IF \E i \in DOMAIN steps : steps[i].id = stepId
    THEN CHOOSE i \in DOMAIN steps :
            /\ steps[i].id = stepId
            /\ \A j \in DOMAIN steps : steps[j].id = stepId => i <= j
    ELSE 0

----------------------------------------------------------------------------
(* WorkflowValidator *)

Err(kind, ids, paths) == [kind |-> kind, ids |-> ids, paths |-> paths]

Opt(cond, e) == IF cond THEN <<e>> ELSE <<>>

(* the set stepIds built by the first loop of validate *)
StepIdSet(wf) == {wf.steps[i].id : i \in DOMAIN wf.steps}

(* duplicateIds: every id already seen when its step is visited *)
RECURSIVE DuplicateIds(_, _)
DuplicateIds(steps, i) ==
    IF i > Len(steps) THEN <<>>
    ELSE Opt(\E j \in 1..(i - 1) : steps[j].id = steps[i].id, steps[i].id)
         \o DuplicateIds(steps, i + 1)

(* the reference checks made for one step, in source order *)
StepRefErrors_SkipsBranchTargets(step, stepIds) ==
    Opt(step.nextStepId # NoStep /\ step.nextStepId \notin stepIds,
        Err("nextStepId", <<step.id, step.nextStepId>>, <<>>))
    \o Opt(step.onSuccess # NoStep /\ step.onSuccess \notin stepIds,
        Err("onSuccess", <<step.id, step.onSuccess>>, <<>>))
    \o Opt(step.onFailure # NoStep /\ step.onFailure \notin stepIds,
        Err("onFailure", <<step.id, step.onFailure>>, <<>>))

StepRefErrors_FirstOnly(step, stepIds) ==
    LET all == StepRefErrors_SkipsBranchTargets(step, stepIds)
               \o Opt(step.type = "CONDITION" /\ step.params.onTrue # NoStep
                         /\ step.params.onTrue \notin stepIds,
                       Err("onTrue", <<step.id, step.params.onTrue>>, <<>>))
               \o Opt(step.type = "CONDITION" /\ step.params.onFalse # NoStep
                         /\ step.params.onFalse \notin stepIds,
                       Err("onFalse", <<step.id, step.params.onFalse>>, <<>>))
    IN  IF all = <<>> THEN <<>> ELSE <<Head(all)>>

StepRefErrors_SkipsOnFailure(step, stepIds) ==
    Opt(step.nextStepId # NoStep /\ step.nextStepId \notin stepIds,
        Err("nextStepId", <<step.id, step.nextStepId>>, <<>>))
    \o Opt(step.onSuccess # NoStep /\ step.onSuccess \notin stepIds,
        Err("onSuccess", <<step.id, step.onSuccess>>, <<>>))
    \o Opt(step.type = "CONDITION" /\ step.params.onTrue # NoStep
              /\ step.params.onTrue \notin stepIds,
        Err("onTrue", <<step.id, step.params.onTrue>>, <<>>))
    \o Opt(step.type = "CONDITION" /\ step.params.onFalse # NoStep
              /\ step.params.onFalse \notin stepIds,
        Err("onFalse", <<step.id, step.params.onFalse>>, <<>>))

StepRefErrors(step, stepIds) ==
    Opt(step.nextStepId # NoStep /\ step.nextStepId \notin stepIds,
        Err("nextStepId", <<step.id, step.nextStepId>>, <<>>))
    \o Opt(step.onSuccess # NoStep /\ step.onSuccess \notin stepIds,
        Err("onSuccess", <<step.id, step.onSuccess>>, <<>>))
    \o Opt(step.onFailure # NoStep /\ step.onFailure \notin stepIds,
        Err("onFailure", <<step.id, step.onFailure>>, <<>>))
    \o Opt(step.type = "CONDITION" /\ step.params.onTrue # NoStep
              /\ step.params.onTrue \notin stepIds,
        Err("onTrue", <<step.id, step.params.onTrue>>, <<>>))
    \o Opt(step.type = "CONDITION" /\ step.params.onFalse # NoStep
              /\ step.params.onFalse \notin stepIds,
        Err("onFalse", <<step.id, step.params.onFalse>>, <<>>))

RECURSIVE RefErrors(_, _, _)
RefErrors(steps, i, stepIds) ==
    IF i > Len(steps) THEN <<>>
    ELSE StepRefErrors(steps[i], stepIds) \o RefErrors(steps, i + 1, stepIds)

(* the outgoing edges both traversals follow, in source order *)
NextSteps_NoFailureEdge(step) ==
    Opt(step.nextStepId # NoStep, step.nextStepId)
    \o Opt(step.onSuccess # NoStep, step.onSuccess)
    \o Opt(step.type = "CONDITION" /\ step.params.onTrue # NoStep,
           step.params.onTrue)
    \o Opt(step.type = "CONDITION" /\ step.params.onFalse # NoStep,
           step.params.onFalse)

NextSteps_NoBranchEdges(step) ==
    Opt(step.nextStepId # NoStep, step.nextStepId)
    \o Opt(step.onSuccess # NoStep, step.onSuccess)
    \o Opt(step.onFailure # NoStep, step.onFailure)

NextSteps(step) ==
    Opt(step.nextStepId # NoStep, step.nextStepId)
    \o Opt(step.onSuccess # NoStep, step.onSuccess)
    \o Opt(step.onFailure # NoStep, step.onFailure)
    \o Opt(step.type = "CONDITION" /\ step.params.onTrue # NoStep,
           step.params.onTrue)
    \o Opt(step.type = "CONDITION" /\ step.params.onFalse # NoStep,
           step.params.onFalse)

EdgesOf(wf, stepId) ==
    LET i == FindStepIndex(wf.steps, stepId)
    IN IF i = 0 THEN <<>> ELSE NextSteps(wf.steps[i])

(* detectCircularReferences: st carries visited, recursionStack, circular *)
RECURSIVE dfs(_, _, _, _)
RECURSIVE dfsEach(_, _, _, _)
dfs(wf, stepId, path, st) ==
    IF stepId \in st.recursionStack
    THEN [st EXCEPT !.circular = Append(@, Append(path, stepId))]
    ELSE IF stepId \in st.visited THEN st
    ELSE LET entered == [st EXCEPT !.visited = @ \cup {stepId},
                                   !.recursionStack = @ \cup {stepId}]
             after == dfsEach(wf, EdgesOf(wf, stepId), Append(path, stepId),
                              entered)
         IN [after EXCEPT !.recursionStack = @ \ {stepId}]

dfsEach(wf, nextSteps, path, st) ==
    IF nextSteps = <<>> THEN st
    ELSE dfsEach(wf, Tail(nextSteps), path, dfs(wf, Head(nextSteps), path, st))

detectCircularReferences_NoCycles(wf) == <<>>

detectCircularReferences(wf) ==
    dfs(wf, wf.entryStepId, <<>>,
        [visited |-> {}, recursionStack |-> {}, circular |-> <<>>]).circular

(* findReachableSteps: breadth-first over a queue *)
RECURSIVE bfs(_, _, _)
bfs(wf, queue, reachable) ==
    IF queue = <<>> THEN reachable
    ELSE IF Head(queue) \in reachable THEN bfs(wf, Tail(queue), reachable)
    ELSE bfs(wf, Tail(queue) \o EdgesOf(wf, Head(queue)),
             reachable \cup {Head(queue)})

findReachableSteps_Everything(wf) == StepIdSet(wf) \cup {wf.entryStepId}

findReachableSteps(wf) == bfs(wf, <<wf.entryStepId>>, {})

(* Array.from(stepIds): the distinct ids in order of first appearance *)
RECURSIVE DistinctIds(_, _)
DistinctIds(steps, i) ==
    IF i > Len(steps) THEN <<>>
    ELSE Opt(\A j \in 1..(i - 1) : steps[j].id # steps[i].id, steps[i].id)
         \o DistinctIds(steps, i + 1)

validate(wf) ==
    IF Len(wf.steps) = 0
    THEN [valid |-> FALSE, errors |-> <<Err("empty", <<>>, <<>>)>>,
          warnings |-> <<>>]
    ELSE
    LET stepIds == StepIdSet(wf)
        duplicateIds == DuplicateIds(wf.steps, 1)
        circularPaths == detectCircularReferences(wf)
        unreachableSteps ==
            SeqFilterIds(DistinctIds(wf.steps, 1),
                         stepIds \ findReachableSteps(wf))
        errors ==
            Opt(Len(wf.steps) > wf.maxSteps, Err("maxSteps", <<>>, <<>>))
            \o Opt(Len(duplicateIds) > 0, Err("duplicate", duplicateIds, <<>>))
            \o Opt(wf.entryStepId \notin stepIds,
                   Err("entry", <<wf.entryStepId>>, <<>>))
            \o RefErrors(wf.steps, 1, stepIds)
            \o Opt(Len(circularPaths) > 0, Err("circular", <<>>, circularPaths))
            \o Opt(Len(unreachableSteps) > 0,
                   Err("unreachable", unreachableSteps, <<>>))
    IN [valid |-> errors = <<>>, errors |-> errors, warnings |-> <<>>]

(* validateOrThrow: TRUE when it throws WorkflowValidationError *)
validateOrThrowThrows_EmptyOnly(wf) == Len(wf.steps) = 0

validateOrThrowThrows(wf) == ~validate(wf).valid

----------------------------------------------------------------------------
(* The workflows and options handed to execute *)

NoRetry == [maxAttempts |-> 0, backoffMs |-> 0]
RetryPolicies ==
    {NoRetry} \cup [maxAttempts : 1..MaxAttempts, backoffMs : {0, 1}]

NoParams == [onTrue |-> NoStep, onFalse |-> NoStep]

(* the ids a step at position i may name on an edge: none, or another id   *)
(* of the id space (which the workflow may or may not contain)             *)
Targets(i) ==
    {NoStep} \cup {StepIdSeq[j] : j \in DOMAIN StepIdSeq \ {i}}

StepShapes(i) ==
    [id : {StepIdSeq[i]}, type : {"LLM"}, params : {NoParams},
     nextStepId : Targets(i), onSuccess : Targets(i), onFailure : Targets(i),
     retry : RetryPolicies]
    \cup
    [id : {StepIdSeq[i]}, type : {"CONDITION"},
     params : [onTrue : Targets(i), onFalse : Targets(i)],
     nextStepId : {NoStep}, onSuccess : {NoStep}, onFailure : Targets(i),
     retry : {NoRetry}]
    \cup
    [id : {StepIdSeq[i]}, type : {"LOOP"}, params : {NoParams},
     nextStepId : {NoStep}, onSuccess : {NoStep}, onFailure : Targets(i),
     retry : {NoRetry}]

RECURSIVE StepLists(_)
StepLists(n) ==
    IF n = 0 THEN {<<>>}
    ELSE {Append(prefix, step) : prefix \in StepLists(n - 1),
                                 step \in StepShapes(n)}

Workflows ==
    [steps : UNION {StepLists(n) : n \in 0..Len(StepIdSeq)},
     entryStepId : {StepIdSeq[1]},
     maxSteps : 1..Len(StepIdSeq),
     maxExecutionTimeMs : {0, 1}]

ExecutionOptions == [maxSteps : {0, 1}, timeoutMs : {0, 2}]

----------------------------------------------------------------------------
(* Values of the execution record *)

NoError == [name |-> "", kind |-> "", stepId |-> NoStep, cause |-> 0]
Error(name, kind, stepId, cause) ==
    [name |-> name, kind |-> kind, stepId |-> stepId, cause |-> cause]

NullOutput ==
    [isNull |-> TRUE, stepId |-> NoStep, nextStep |-> NoStep,
     conditionMet |-> FALSE]
Output(stepId, nextStep) ==
    [isNull |-> FALSE, stepId |-> stepId, nextStep |-> nextStep,
     conditionMet |-> FALSE]

(* the output of ConditionStepHandler.execute: conditionMet and nextStep *)
ConditionOutput(stepId, conditionMet, nextStep) ==
    [isNull |-> FALSE, stepId |-> stepId, nextStep |-> nextStep,
     conditionMet |-> conditionMet]

NoResult == [success |-> FALSE, output |-> NullOutput, error |-> NoError]

(* before execute has created the record *)
NoExecution ==
    [status |-> "none", stepExecutions |-> <<>>, outputPayload |-> NullOutput,
     error |-> NoError, metrics |-> [stepsExecuted |-> 0]]

createWorkflowExecution ==
    [status |-> "pending", stepExecutions |-> <<>>,
     outputPayload |-> NullOutput, error |-> NoError,
     metrics |-> [stepsExecuted |-> 0]]

addStepExecution_Prepend(exec, stepId, stepType) ==
    [exec EXCEPT !.stepExecutions =
        <<[stepId |-> stepId, stepType |-> stepType,
           status |-> "pending", output |-> NullOutput,
           error |-> NoError, retryCount |-> 0]>> \o @]

addStepExecution(exec, stepId, stepType) ==
    [exec EXCEPT !.stepExecutions =
        Append(@, [stepId |-> stepId, stepType |-> stepType,
                   status |-> "pending", output |-> NullOutput,
                   error |-> NoError, retryCount |-> 0])]

(* findIndex: the first entry with this step id *)
FindExecutionIndex(exec, stepId) ==
    IF \E i \in DOMAIN exec.stepExecutions :
           exec.stepExecutions[i].stepId = stepId
    THEN CHOOSE i \in DOMAIN exec.stepExecutions :
            /\ exec.stepExecutions[i].stepId = stepId
            /\ \A j \in DOMAIN exec.stepExecutions :
                   exec.stepExecutions[j].stepId = stepId => i <= j
    ELSE 0

(* Object.assign(entry, updates) on the entry found, nothing otherwise *)
updateStepExecution(exec, stepId, updates) ==
    LET index == FindExecutionIndex(exec, stepId)
    IN IF index = 0 THEN exec
       ELSE [exec EXCEPT !.stepExecutions[index] =
                [f \in DOMAIN @ |->
                    IF f \in DOMAIN updates THEN updates[f] ELSE @[f]]]

----------------------------------------------------------------------------
(* WorkflowExecutor *)

(* executeSteps: options?.maxSteps || workflow.maxSteps *)
maxSteps ==
    IF options.maxSteps # 0 THEN options.maxSteps ELSE workflow.maxSteps

(* executeSteps: options?.timeoutMs || workflow.maxExecutionTimeMs *)
timeoutMs ==
    IF options.timeoutMs # 0 THEN options.timeoutMs
    ELSE workflow.maxExecutionTimeMs

(* the step the loop found for currentStepId *)
CurStep == workflow.steps[FindStepIndex(workflow.steps, currentStepId)]

(* executeStep: step.retry?.maxAttempts || 1 *)
maxAttempts(step) ==
    IF step.retry.maxAttempts # 0 THEN step.retry.maxAttempts
    ELSE DefaultMaxAttempts

(* executeStep: step.retry?.backoffMs || 1000 *)
backoffMs(step) ==
    IF step.retry.backoffMs # 0 THEN step.retry.backoffMs
    ELSE DefaultBackoffMs

(* handler.validateParams: ConditionStepParamsSchema requires onTrue *)
validateParamsThrows(step) ==
    step.type = "CONDITION" /\ step.params.onTrue = NoStep

(* the top-level catch of execute *)
FailRun(exec, error) ==
    [exec EXCEPT !.status = "failed", !.error = error]

(* executeSteps after executeStep returned nextStepId *)
AdvanceLoop(exec, nextStepId) ==
    /\ stepsExecuted' = stepsExecuted + 1
    /\ currentStepId' = nextStepId
    /\ execution' = [exec EXCEPT !.metrics.stepsExecuted = stepsExecuted + 1]
    /\ pc' = "loop"

(* what the handler of a step type can do when it is called *)
ReturnedResults_SwapsBranches(step) ==
    IF step.type = "CONDITION"
    THEN {[success |-> TRUE,
           output |-> ConditionOutput(step.id, conditionResult,
                          IF conditionResult THEN step.params.onFalse
                          ELSE step.params.onTrue),
           error |-> NoError] : conditionResult \in BOOLEAN}
    ELSE {[success |-> TRUE, output |-> Output(step.id, NoStep),
           error |-> NoError],
          [success |-> FALSE, output |-> NullOutput,
           error |-> Error("", "handler", step.id, attempt)]}

ReturnedResults(step) ==
    IF step.type = "CONDITION"
    THEN {[success |-> TRUE,
           output |-> ConditionOutput(step.id, conditionResult,
                          IF conditionResult THEN step.params.onTrue
                          ELSE step.params.onFalse),
           error |-> NoError] : conditionResult \in BOOLEAN}
    ELSE {[success |-> TRUE, output |-> Output(step.id, NoStep),
           error |-> NoError],
          [success |-> FALSE, output |-> NullOutput,
           error |-> Error("", "handler", step.id, attempt)]}

HandlerMayThrow(step) == step.type # "CONDITION"

(* executeStep: the next step after a returned result *)
NextStepId_FallsThrough(step, res) ==
    IF ~res.success THEN step.onFailure
    ELSE IF step.type = "CONDITION" /\ res.output.nextStep # NoStep
         THEN res.output.nextStep
    ELSE IF step.onSuccess # NoStep THEN step.onSuccess
    ELSE step.nextStepId

NextStepId_PrefersNextStepId(step, res) ==
    IF ~res.success THEN step.onFailure
    ELSE IF step.type = "CONDITION" /\ ~res.output.isNull
         THEN res.output.nextStep
    ELSE IF step.nextStepId # NoStep THEN step.nextStepId
    ELSE step.onSuccess

NextStepId(step, res) ==
    IF ~res.success THEN step.onFailure
    ELSE IF step.type = "CONDITION" /\ ~res.output.isNull
         THEN res.output.nextStep
    ELSE IF step.onSuccess # NoStep THEN step.onSuccess
    ELSE step.nextStepId

----------------------------------------------------------------------------
(* the components exercised on their own, before any call on them *)
ValidatorIdle ==
    /\ validations = <<>>

RegistryIdle ==
    /\ handlers = <<>>
    /\ registryOps = <<>>
    /\ lookup = NoLookup

TemplateIdle ==
    /\ template = <<>>
    /\ templateContext = <<>>
    /\ resolved = NoResolved

ExpressionIdle ==
    /\ expression = <<>>
    /\ expressionContext = <<>>
    /\ evaluated = NoEvaluated

BreakerIdle ==
    /\ breakerConfig = [failureThreshold |-> 1, resetTimeout |-> 1]
    /\ breaker = [state |-> "closed", failures |-> 0, lastFailureTime |-> 0,
                  successCount |-> 0]
    /\ inFlight = 0
    /\ history = <<>>
    /\ outcome = [call |-> "", threw |-> FALSE, invoked |-> FALSE]

LimiterIdle ==
    /\ limiterConfig = [maxRequests |-> 1, windowMs |-> 1]
    /\ requests = <<>>
    /\ answers = <<>>

CacheIdle ==
    /\ cacheOptions = [ttlMs |-> 0, maxSize |-> 0]
    /\ store = <<>>
    /\ accesses = <<>>

UtilitiesIdle ==
    /\ clock = 1
    /\ BreakerIdle
    /\ LimiterIdle
    /\ CacheIdle

ComponentsIdle ==
    /\ ValidatorIdle
    /\ RegistryIdle
    /\ TemplateIdle
    /\ ExpressionIdle
    /\ UtilitiesIdle

(* an executor on which execute has not been called *)
ExecutorIdle ==
    /\ options = [maxSteps |-> 0, timeoutMs |-> 0]
    /\ pc = "idle"
    /\ execution = NoExecution
    /\ context = [steps |-> <<>>]
    /\ currentStepId = NoStep
    /\ stepsExecuted = 0
    /\ startTime = 0
    /\ now = 0
    /\ attempt = 0
    /\ lastError = NoError
    /\ result = NoResult
    /\ thrown = NoError
    /\ calls = 0
    /\ slept = <<>>
    /\ self = 1
    /\ suspended = <<>>

Init ==
    /\ workflow \in Workflows
    /\ options \in ExecutionOptions
    /\ pc = "idle"
    /\ execution = NoExecution
    /\ context = [steps |-> <<>>]
    /\ currentStepId = NoStep
    /\ stepsExecuted = 0
    /\ startTime = 0
    /\ now = 0
    /\ attempt = 0
    /\ lastError = NoError
    /\ result = NoResult
    /\ thrown = NoError
    /\ calls = 0
    /\ slept = <<>>
    /\ self = 1
    /\ suspended = <<>>
    /\ ComponentsIdle

(* execute: validateOrThrow, then createWorkflowExecution *)
Execute ==
    /\ pc = "idle"
    /\ IF validateOrThrowThrows(workflow)
       THEN /\ pc' = "thrown"
            /\ thrown' = Error("WorkflowValidationError", "validation",
                               NoStep, 0)
            /\ UNCHANGED execution
       ELSE /\ pc' = "created"
            /\ execution' = createWorkflowExecution
            /\ UNCHANGED thrown
    /\ UNCHANGED <<componentVars, self, suspended, workflow, options, context,
                   currentStepId, stepsExecuted, startTime, now, attempt,
                   lastError, result, calls, slept>>

(* execute: status = 'running', the context, and the prologue of executeSteps *)
StartRun ==
    /\ pc = "created"
    /\ execution' = [execution EXCEPT !.status = "running"]
    /\ context' = [steps |-> <<>>]
    /\ currentStepId' = workflow.entryStepId
    /\ stepsExecuted' = 0
    /\ startTime' = now
    /\ pc' = "loop"
    /\ UNCHANGED <<componentVars, self, suspended, workflow, options, now,
                   attempt, lastError, result, thrown, calls, slept>>

(* executeSteps: if (stepsExecuted >= maxSteps) *)
StepLimitReached_OffByOne == stepsExecuted > maxSteps

StepLimitReached == stepsExecuted >= maxSteps

(* executeSteps: if (timeoutMs && Date.now() - startTime > timeoutMs) *)
TimedOut_OffByOne == timeoutMs # 0 /\ now - startTime > timeoutMs + 1

TimedOut_Never == FALSE

TimedOut == timeoutMs # 0 /\ now - startTime > timeoutMs

(* one pass through the head of the while loop, up to the first await *)
LoopHead ==
    /\ pc = "loop"
    /\ currentStepId # NoStep
    /\ IF StepLimitReached
       THEN /\ execution' = FailRun(execution,
                   Error("WorkflowValidationError", "steplimit", NoStep, 0))
            /\ pc' = "returned"
            /\ UNCHANGED <<attempt, lastError, thrown, calls, slept>>
       ELSE IF TimedOut
       THEN /\ execution' = FailRun(execution,
                   Error("TimeoutError", "timeout", NoStep, 0))
            /\ pc' = "returned"
            /\ UNCHANGED <<attempt, lastError, thrown, calls, slept>>
       ELSE IF FindStepIndex(workflow.steps, currentStepId) = 0
       THEN /\ execution' = FailRun(execution,
                   Error("WorkflowValidationError", "notfound",
                         currentStepId, 0))
            /\ pc' = "returned"
            /\ UNCHANGED <<attempt, lastError, thrown, calls, slept>>
       ELSE /\ execution' =
                updateStepExecution(
                    addStepExecution(execution, CurStep.id, CurStep.type),
                    CurStep.id, [status |-> "running"])
            /\ calls' = 0
            /\ slept' = <<>>
            /\ lastError' = NoError
            /\ IF CurStep.type \notin RegisteredTypes
               THEN /\ thrown' = Error("ConfigurationError", "config",
                                       CurStep.id, 0)
                    /\ pc' = "catch"
                    /\ UNCHANGED attempt
               ELSE IF validateParamsThrows(CurStep)
               THEN /\ thrown' = Error("StepExecutionError", "params",
                                       CurStep.id, 0)
                    /\ pc' = "catch"
                    /\ UNCHANGED attempt
               ELSE /\ attempt' = 1
                    /\ pc' = "invoke"
                    /\ UNCHANGED thrown
    /\ UNCHANGED <<componentVars, self, suspended, workflow, options, context,
                   currentStepId, stepsExecuted, startTime, now, result>>

(* executeWithRetry: await fn() returns a StepResult *)
HandlerReturns ==
    /\ pc = "invoke"
    /\ \E res \in ReturnedResults(CurStep), d \in 0..MaxDelay :
        /\ result' = res
        /\ now' = now + d
    /\ calls' = calls + 1
    /\ pc' = "result"
    /\ UNCHANGED <<componentVars, self, suspended, workflow, options,
                   execution, context, currentStepId, stepsExecuted,
                   startTime, attempt, lastError, thrown, slept>>

(* executeWithRetry: await fn() rejects *)
HandlerThrows_OffByOne ==
    /\ pc = "invoke"
    /\ HandlerMayThrow(CurStep)
    /\ \E d \in 0..MaxDelay : now' = now + d
    /\ calls' = calls + 1
    /\ lastError' = Error("Error", "handler", CurStep.id, attempt)
    /\ IF attempt <= maxAttempts(CurStep)
       THEN /\ pc' = "sleep"
            /\ UNCHANGED thrown
       ELSE /\ pc' = "catch"
            /\ thrown' = lastError'
    /\ UNCHANGED <<componentVars, self, suspended, workflow, options,
                   execution, context, currentStepId, stepsExecuted,
                   startTime, attempt, result, slept>>

HandlerThrows ==
    /\ pc = "invoke"
    /\ HandlerMayThrow(CurStep)
    /\ \E d \in 0..MaxDelay : now' = now + d
    /\ calls' = calls + 1
    /\ lastError' = Error("Error", "handler", CurStep.id, attempt)
    /\ IF attempt < maxAttempts(CurStep)
       THEN /\ pc' = "sleep"
            /\ UNCHANGED thrown
       ELSE /\ pc' = "catch"
            /\ thrown' = lastError'
    /\ UNCHANGED <<componentVars, self, suspended, workflow, options,
                   execution, context, currentStepId, stepsExecuted,
                   startTime, attempt, result, slept>>

(* executeWithRetry: the setTimeout between two attempts *)
Backoff ==
    /\ pc = "sleep"
    /\ now' = now + backoffMs(CurStep) * attempt
    /\ slept' = Append(slept, backoffMs(CurStep) * attempt)
    /\ attempt' = attempt + 1
    /\ pc' = "invoke"
    /\ UNCHANGED <<componentVars, self, suspended, workflow, options,
                   execution, context, currentStepId, stepsExecuted,
                   startTime, lastError, result, thrown, calls>>

(* executeStep after executeWithRetry returned, then the loop tail *)
StepReturned_ForgetsEarlierSteps ==
    /\ pc = "result"
    /\ context' = [context EXCEPT !.steps =
            (CurStep.id :> [output |-> result.output])]
    /\ AdvanceLoop(
           updateStepExecution(execution, CurStep.id,
               [status |-> IF result.success THEN "completed" ELSE "failed",
                output |-> result.output,
                error |-> result.error]),
           NextStepId(CurStep, result))
    /\ UNCHANGED <<componentVars, self, suspended, workflow, options,
                   startTime, now, attempt, lastError, result, thrown, calls,
                   slept>>

StepReturned_LeavesRunning ==
    /\ pc = "result"
    /\ context' = [context EXCEPT !.steps =
            (CurStep.id :> [output |-> result.output]) @@ @]
    /\ AdvanceLoop(execution, NextStepId(CurStep, result))
    /\ UNCHANGED <<componentVars, self, suspended, workflow, options,
                   startTime, now, attempt, lastError, result, thrown, calls,
                   slept>>

StepReturned ==
    /\ pc = "result"
    /\ context' = [context EXCEPT !.steps =
            (CurStep.id :> [output |-> result.output]) @@ @]
    /\ AdvanceLoop(
           updateStepExecution(execution, CurStep.id,
               [status |-> IF result.success THEN "completed" ELSE "failed",
                output |-> result.output,
                error |-> result.error]),
           NextStepId(CurStep, result))
    /\ UNCHANGED <<componentVars, self, suspended, workflow, options,
                   startTime, now, attempt, lastError, result, thrown, calls,
                   slept>>

(* executeStep: the catch block, then the loop tail or the top-level catch *)
StepCaught_SwallowsFailure ==
    /\ pc = "catch"
    /\ LET failed == updateStepExecution(execution, CurStep.id,
                         [status |-> "failed", error |-> thrown])
       IN IF CurStep.onFailure # NoStep
          THEN /\ AdvanceLoop(failed, CurStep.onFailure)
               /\ thrown' = NoError
          ELSE /\ AdvanceLoop(
                      FailRun(failed,
                          Error("StepExecutionError", "step", CurStep.id,
                                thrown.cause)),
                      NoStep)
               /\ thrown' = NoError
    /\ UNCHANGED <<componentVars, self, suspended, workflow, options, context,
                   startTime, now, attempt, lastError, result, calls, slept>>

StepCaught_LeavesRunning ==
    /\ pc = "catch"
    /\ IF CurStep.onFailure # NoStep
       THEN /\ AdvanceLoop(execution, CurStep.onFailure)
            /\ thrown' = NoError
       ELSE /\ execution' = FailRun(
                   updateStepExecution(execution, CurStep.id,
                       [status |-> "failed", error |-> thrown]),
                   Error("StepExecutionError", "step", CurStep.id,
                         thrown.cause))
            /\ thrown' = Error("StepExecutionError", "step", CurStep.id,
                               thrown.cause)
            /\ pc' = "returned"
            /\ UNCHANGED <<currentStepId, stepsExecuted>>
    /\ UNCHANGED <<componentVars, self, suspended, workflow, options, context,
                   startTime, now, attempt, lastError, result, calls, slept>>

StepCaught_IgnoresOnFailure ==
    /\ pc = "catch"
    /\ execution' = FailRun(
           updateStepExecution(execution, CurStep.id,
               [status |-> "failed", error |-> thrown]),
           Error("StepExecutionError", "step", CurStep.id, thrown.cause))
    /\ thrown' = Error("StepExecutionError", "step", CurStep.id, thrown.cause)
    /\ pc' = "returned"
    /\ UNCHANGED <<componentVars, self, suspended, workflow, options, context,
                   currentStepId, stepsExecuted, startTime, now, attempt,
                   lastError, result, calls, slept>>

StepCaught ==
    /\ pc = "catch"
    /\ LET failed == updateStepExecution(execution, CurStep.id,
                         [status |-> "failed", error |-> thrown])
       IN IF CurStep.onFailure # NoStep
          THEN /\ AdvanceLoop(failed, CurStep.onFailure)
               /\ thrown' = NoError
          ELSE /\ execution' = FailRun(failed,
                      Error("StepExecutionError", "step", CurStep.id,
                            thrown.cause))
               /\ thrown' = Error("StepExecutionError", "step", CurStep.id,
                                  thrown.cause)
               /\ pc' = "returned"
               /\ UNCHANGED <<currentStepId, stepsExecuted>>
    /\ UNCHANGED <<componentVars, self, suspended, workflow, options, context,
                   startTime, now, attempt, lastError, result, calls, slept>>

(* execute: the loop ended normally *)
Complete ==
    /\ pc = "loop"
    /\ currentStepId = NoStep
    /\ LET n == Len(execution.stepExecutions)
           out == IF n > 0 /\ ~execution.stepExecutions[n].output.isNull
                  THEN execution.stepExecutions[n].output
                  ELSE execution.outputPayload
       IN execution' = [execution EXCEPT !.outputPayload = out,
                                         !.status = "completed"]
    /\ pc' = "returned"
    /\ UNCHANGED <<componentVars, self, suspended, workflow, options, context,
                   currentStepId, stepsExecuted, startTime, now, attempt,
                   lastError, result, thrown, calls, slept>>

Next ==
    \/ Execute
    \/ StartRun
    \/ LoopHead
    \/ HandlerReturns
    \/ HandlerThrows
    \/ Backoff
    \/ StepReturned
    \/ StepCaught
    \/ Complete

Spec == Init /\ [][Next]_vars

----------------------------------------------------------------------------
(* Runs of workflows with three steps: an entry step that branches (a      *)
(* CONDITION step, or an LLM step with both onSuccess and nextStepId) and  *)
(* two steps it can route to, the first of which may lead to the second.   *)

BranchIdSeq == <<"s1", "s2", "s3">>

BranchTargets == {NoStep} \cup {BranchIdSeq[j] : j \in DOMAIN BranchIdSeq \ {1}}

BranchRetryPolicies == {NoRetry, [maxAttempts |-> 2, backoffMs |-> 1]}

BranchEntrySteps ==
    [id : {BranchIdSeq[1]}, type : {"CONDITION"},
     params : [onTrue : BranchTargets, onFalse : BranchTargets],
     nextStepId : BranchTargets, onSuccess : {NoStep},
     onFailure : {NoStep, BranchIdSeq[3]}, retry : {NoRetry}]
    \cup
    [id : {BranchIdSeq[1]}, type : {"LLM"}, params : {NoParams},
     nextStepId : BranchTargets, onSuccess : BranchTargets,
     onFailure : BranchTargets, retry : BranchRetryPolicies]

BranchMiddleSteps ==
    [id : {BranchIdSeq[2]}, type : {"LLM"}, params : {NoParams},
     nextStepId : {NoStep, BranchIdSeq[3]}, onSuccess : {NoStep},
     onFailure : {NoStep, BranchIdSeq[3]}, retry : BranchRetryPolicies]

BranchLastSteps ==
    [id : {BranchIdSeq[3]}, type : {"LLM"}, params : {NoParams},
     nextStepId : {NoStep}, onSuccess : {NoStep}, onFailure : {NoStep},
     retry : {NoRetry}]

BranchWorkflows ==
    [steps : {<<a, b, c>> : a \in BranchEntrySteps, b \in BranchMiddleSteps,
                            c \in BranchLastSteps},
     entryStepId : {BranchIdSeq[1]},
     maxSteps : {Len(BranchIdSeq)},
     maxExecutionTimeMs : {0}]

InitBranch ==
    /\ workflow \in BranchWorkflows
    /\ options = [maxSteps |-> 0, timeoutMs |-> 0]
    /\ pc = "idle"
    /\ execution = NoExecution
    /\ context = [steps |-> <<>>]
    /\ currentStepId = NoStep
    /\ stepsExecuted = 0
    /\ startTime = 0
    /\ now = 0
    /\ attempt = 0
    /\ lastError = NoError
    /\ result = NoResult
    /\ thrown = NoError
    /\ calls = 0
    /\ slept = <<>>
    /\ self = 1
    /\ suspended = <<>>
    /\ ComponentsIdle

SpecBranch == InitBranch /\ [][Next]_vars

----------------------------------------------------------------------------
(* Runs of workflows over two step ids whose edges may name any id of the  *)
(* id space, the step's own id included, with a step limit that leaves     *)
(* room for a step to be entered twice.                                    *)

GraphIdSeq == <<"s1", "s2">>

GraphTargets == {NoStep} \cup {GraphIdSeq[j] : j \in DOMAIN GraphIdSeq}

GraphSteps(i) ==
    [id : {GraphIdSeq[i]}, type : {"LLM"}, params : {NoParams},
     nextStepId : GraphTargets, onSuccess : {NoStep, GraphIdSeq[2]},
     onFailure : GraphTargets, retry : BranchRetryPolicies]
    \cup
    [id : {GraphIdSeq[i]}, type : {"CONDITION"},
     params : [onTrue : GraphTargets, onFalse : GraphTargets],
     nextStepId : {NoStep}, onSuccess : {NoStep}, onFailure : {NoStep},
     retry : {NoRetry}]

GraphWorkflows ==
    [steps : {<<a>> : a \in GraphSteps(1)}
             \cup {<<a, b>> : a \in GraphSteps(1), b \in GraphSteps(2)},
     entryStepId : {GraphIdSeq[1]},
     maxSteps : {2 * Len(GraphIdSeq)},
     maxExecutionTimeMs : {0}]

(* the runs of the workflows validateOrThrow lets through, in which every *)
(* handler call and every sleep the run waits for comes to an end         *)
InitAccepted ==
    /\ workflow \in GraphWorkflows
    /\ ~validateOrThrowThrows(workflow)
    /\ ExecutorIdle
    /\ ComponentsIdle

SpecAccepted == InitAccepted /\ [][Next]_vars /\ WF_vars(Next)

----------------------------------------------------------------------------
(* Two execute calls in progress on the same executor.  Everything execute *)
(* works on is a parameter or a local of the call (workflow, options,      *)
(* execution, context, and the locals of executeSteps, executeStep and     *)
(* executeWithRetry), so each call has a frame of its own; the clock is    *)
(* the only state the calls have in common.  The JavaScript event loop     *)
(* runs one call at a time and can pass control to another call wherever   *)
(* the running one is waiting on a promise.                                *)

Runs == {1, 2}

(* the frame of the call that is running *)
Frame ==
    [workflow |-> workflow, options |-> options, pc |-> pc,
     execution |-> execution, context |-> context,
     currentStepId |-> currentStepId, stepsExecuted |-> stepsExecuted,
     startTime |-> startTime, attempt |-> attempt, lastError |-> lastError,
     result |-> result, thrown |-> thrown, calls |-> calls, slept |-> slept]

(* the frame of a call that has not begun *)
NewFrame(wf, opts) ==
    [workflow |-> wf, options |-> opts, pc |-> "idle",
     execution |-> NoExecution, context |-> [steps |-> <<>>],
     currentStepId |-> NoStep, stepsExecuted |-> 0, startTime |-> 0,
     attempt |-> 0, lastError |-> NoError, result |-> NoResult,
     thrown |-> NoError, calls |-> 0, slept |-> <<>>]

(* the workflows of the two calls: the step ids tell the calls apart *)
RunStepIds(r) == IF r = 1 THEN <<"s1", "s2">> ELSE <<"t1", "t2">>

RunWorkflows(r) ==
    [steps :
        {<<>>} \cup
        {<<a, b>> :
            a \in [id : {RunStepIds(r)[1]}, type : {"LLM"},
                   params : {NoParams}, nextStepId : {RunStepIds(r)[2]},
                   onSuccess : {NoStep},
                   onFailure : {NoStep, RunStepIds(r)[2]},
                   retry : BranchRetryPolicies],
            b \in [id : {RunStepIds(r)[2]}, type : {"LLM"},
                   params : {NoParams}, nextStepId : {NoStep},
                   onSuccess : {NoStep}, onFailure : {NoStep},
                   retry : {NoRetry}]},
     entryStepId : {RunStepIds(r)[1]},
     maxSteps : {Len(RunStepIds(r))},
     maxExecutionTimeMs : {0}]

InitRuns ==
    /\ workflow \in RunWorkflows(1)
    /\ options = [maxSteps |-> 0, timeoutMs |-> 0]
    /\ pc = "idle"
    /\ execution = NoExecution
    /\ context = [steps |-> <<>>]
    /\ currentStepId = NoStep
    /\ stepsExecuted = 0
    /\ startTime = 0
    /\ now = 0
    /\ attempt = 0
    /\ lastError = NoError
    /\ result = NoResult
    /\ thrown = NoError
    /\ calls = 0
    /\ slept = <<>>
    /\ self = 1
    /\ \E wf \in RunWorkflows(2) :
          suspended = (2 :> NewFrame(wf, [maxSteps |-> 0, timeoutMs |-> 0]))
    /\ ComponentsIdle

(* the event loop passes control from the running call to call r *)
Switch_SharesContext(r) ==
    /\ r \in DOMAIN suspended
    /\ pc # "created"
    /\ self' = r
    /\ suspended' =
          [q \in (DOMAIN suspended \ {r}) \cup {self} |->
              IF q = self THEN Frame ELSE suspended[q]]
    /\ workflow' = suspended[r].workflow
    /\ options' = suspended[r].options
    /\ pc' = suspended[r].pc
    /\ execution' = suspended[r].execution
    /\ currentStepId' = suspended[r].currentStepId
    /\ stepsExecuted' = suspended[r].stepsExecuted
    /\ startTime' = suspended[r].startTime
    /\ attempt' = suspended[r].attempt
    /\ lastError' = suspended[r].lastError
    /\ result' = suspended[r].result
    /\ thrown' = suspended[r].thrown
    /\ calls' = suspended[r].calls
    /\ slept' = suspended[r].slept
    /\ UNCHANGED <<componentVars, context, now>>

Switch(r) ==
    /\ r \in DOMAIN suspended
    /\ pc # "created"
    /\ self' = r
    /\ suspended' =
          [q \in (DOMAIN suspended \ {r}) \cup {self} |->
              IF q = self THEN Frame ELSE suspended[q]]
    /\ workflow' = suspended[r].workflow
    /\ options' = suspended[r].options
    /\ pc' = suspended[r].pc
    /\ execution' = suspended[r].execution
    /\ context' = suspended[r].context
    /\ currentStepId' = suspended[r].currentStepId
    /\ stepsExecuted' = suspended[r].stepsExecuted
    /\ startTime' = suspended[r].startTime
    /\ attempt' = suspended[r].attempt
    /\ lastError' = suspended[r].lastError
    /\ result' = suspended[r].result
    /\ thrown' = suspended[r].thrown
    /\ calls' = suspended[r].calls
    /\ slept' = suspended[r].slept
    /\ UNCHANGED <<componentVars, now>>

NextRuns ==
    \/ Execute
    \/ StartRun
    \/ LoopHead
    \/ HandlerReturns
    \/ HandlerThrows
    \/ Backoff
    \/ StepReturned
    \/ StepCaught
    \/ Complete
    \/ \E r \in Runs : Switch(r)

SpecRuns == InitRuns /\ [][NextRuns]_vars

----------------------------------------------------------------------------
(* WorkflowValidator.validate called on its own, on workflows of up to     *)
(* three steps that may repeat an id, name a missing step, point back at   *)
(* an earlier step or at themselves, and leave steps unconnected.          *)

ValidatorIdSeq == <<"s1", "s2", "s3">>

ValidatorTargets ==
    {NoStep} \cup {ValidatorIdSeq[j] : j \in DOMAIN ValidatorIdSeq}

(* a step with at most one edge, of any kind *)
ValidatorOneEdgeShapes ==
    {sh \in [type : {"LLM"}, params : {NoParams},
             nextStepId : ValidatorTargets, onSuccess : ValidatorTargets,
             onFailure : ValidatorTargets, retry : {NoRetry}] :
        Cardinality({f \in {"nextStepId", "onSuccess", "onFailure"} :
                        sh[f] # NoStep}) <= 1}

(* a step with both nextStepId and onFailure *)
ValidatorTwoEdgeShapes ==
    [type : {"LLM"}, params : {NoParams},
     nextStepId : ValidatorTargets \ {NoStep}, onSuccess : {NoStep},
     onFailure : ValidatorTargets \ {NoStep}, retry : {NoRetry}]

ValidatorConditionShapes ==
    [type : {"CONDITION"},
     params : [onTrue : ValidatorTargets, onFalse : ValidatorTargets],
     nextStepId : {NoStep}, onSuccess : {NoStep}, onFailure : {NoStep},
     retry : {NoRetry}]

WithId(shape, id) ==
    [id |-> id, type |-> shape.type, params |-> shape.params,
     nextStepId |-> shape.nextStepId, onSuccess |-> shape.onSuccess,
     onFailure |-> shape.onFailure, retry |-> shape.retry]

(* the second step may repeat the id of the first *)
ValidatorSteps(i) ==
    {WithId(sh, id) :
        sh \in ValidatorOneEdgeShapes
               \cup (IF i < Len(ValidatorIdSeq)
                     THEN ValidatorConditionShapes ELSE {})
               \cup (IF i = 1 THEN ValidatorTwoEdgeShapes ELSE {}),
        id \in IF i = 2 THEN {ValidatorIdSeq[1], ValidatorIdSeq[2]}
               ELSE {ValidatorIdSeq[i]}}

RECURSIVE ValidatorStepLists(_)
ValidatorStepLists(n) ==
    IF n = 0 THEN {<<>>}
    ELSE {Append(prefix, step) : prefix \in ValidatorStepLists(n - 1),
                                 step \in ValidatorSteps(n)}

ValidatorWorkflows ==
    {wf \in [steps : UNION {ValidatorStepLists(n) :
                                n \in 0..Len(ValidatorIdSeq)},
             entryStepId : {ValidatorIdSeq[1], ValidatorIdSeq[3]},
             maxSteps : {Len(ValidatorIdSeq) - 1, Len(ValidatorIdSeq)},
             maxExecutionTimeMs : {0}] :
        wf.entryStepId = ValidatorIdSeq[1] \/ wf.maxSteps = Len(ValidatorIdSeq)}

InitValidator ==
    /\ workflow \in ValidatorWorkflows
    /\ ExecutorIdle
    /\ ComponentsIdle

(* validator.validate(workflow): the workflow is only read *)
Validate_KeepsErrors ==
    /\ Len(validations) < MaxValidations
    /\ validations' =
          Append(validations,
                 IF validations = <<>> THEN validate(workflow)
                 ELSE LET errors == validations[Len(validations)].errors
                                        \o validate(workflow).errors
                      IN [valid |-> errors = <<>>, errors |-> errors,
                          warnings |-> <<>>])
    /\ UNCHANGED <<executorVars, utilityVars, registryVars, templateVars, expressionVars>>

Validate ==
    /\ Len(validations) < MaxValidations
    /\ validations' = Append(validations, validate(workflow))
    /\ UNCHANGED <<executorVars, utilityVars, registryVars, templateVars, expressionVars>>

NextValidator ==
    \/ Validate

SpecValidator == InitValidator /\ [][NextValidator]_vars

----------------------------------------------------------------------------
(* StepRegistry                                                            *)

StepTypes == {"LLM", "CONDITION"}

(* a step type handed to register as a string, and the handler instances *)
TypeString(type) == [kind |-> "string", id |-> "", type |-> type]

RegistryHandlers ==
    {[kind |-> "handler", id |-> "h1", type |-> "LLM"],
     [kind |-> "handler", id |-> "h2", type |-> "LLM"],
     [kind |-> "handler", id |-> "h3", type |-> "CONDITION"]}

(* Map.set, Map.get, Map.delete on the handlers map *)
MapSet(map, key, value) ==
    [k \in DOMAIN map \cup {key} |-> IF k = key THEN value ELSE map[k]]

MapGet(map, key) == IF key \in DOMAIN map THEN map[key] ELSE NoHandler

MapDelete(map, key) == [k \in DOMAIN map \ {key} |-> map[k]]

register_KeepsFirst(map, handlerOrType, handler) ==
    LET type == handlerOrType.type
        handlerInstance == IF handlerOrType.kind = "string"
                           THEN handler ELSE handlerOrType
    IN  IF type \in DOMAIN map THEN map ELSE MapSet(map, type, handlerInstance)

register(map, handlerOrType, handler) ==
    LET type == handlerOrType.type
        handlerInstance == IF handlerOrType.kind = "string"
                           THEN handler ELSE handlerOrType
    IN  MapSet(map, type, handlerInstance)

get(map, type) == MapGet(map, type)

unregister(map, type) == MapDelete(map, type)

clear(map) == <<>>

InitRegistry ==
    /\ workflow = NoWorkflow
    /\ ExecutorIdle
    /\ ComponentsIdle

Register(handlerOrType, handler) ==
    /\ Len(registryOps) < MaxOps
    /\ handlers' = register(handlers, handlerOrType, handler)
    /\ registryOps' = Append(registryOps,
                             [op |-> "register",
                              handlerOrType |-> handlerOrType,
                              handler |-> handler])
    /\ UNCHANGED <<executorVars, utilityVars, validatorVars, templateVars, expressionVars,
                   lookup>>

Unregister(type) ==
    /\ Len(registryOps) < MaxOps
    /\ handlers' = unregister(handlers, type)
    /\ registryOps' = Append(registryOps,
                             [op |-> "unregister",
                              handlerOrType |-> TypeString(type),
                              handler |-> NoHandler])
    /\ UNCHANGED <<executorVars, utilityVars, validatorVars, templateVars, expressionVars,
                   lookup>>

Clear ==
    /\ Len(registryOps) < MaxOps
    /\ handlers' = clear(handlers)
    /\ registryOps' = Append(registryOps,
                             [op |-> "clear",
                              handlerOrType |-> TypeString(""),
                              handler |-> NoHandler])
    /\ UNCHANGED <<executorVars, utilityVars, validatorVars, templateVars, expressionVars,
                   lookup>>

Get(type) ==
    /\ lookup' = [call |-> "get", type |-> type,
                  handler |-> get(handlers, type), threw |-> FALSE]
    /\ UNCHANGED <<executorVars, utilityVars, validatorVars, templateVars, expressionVars,
                   handlers, registryOps>>

GetHandler(type) ==
    /\ lookup' = [call |-> "getHandler", type |-> type,
                  handler |-> get(handlers, type),
                  threw |-> get(handlers, type) = NoHandler]
    /\ UNCHANGED <<executorVars, utilityVars, validatorVars, templateVars, expressionVars,
                   handlers, registryOps>>

NextRegistry ==
    \/ \E handler \in RegistryHandlers : Register(handler, NoHandler)
    \/ \E type \in StepTypes, handler \in RegistryHandlers :
          Register(TypeString(type), handler)
    \/ \E type \in StepTypes : Unregister(type)
    \/ Clear
    \/ \E type \in StepTypes : Get(type)
    \/ \E type \in StepTypes : GetHandler(type)

SpecRegistry == InitRegistry /\ [][NextRegistry]_vars

----------------------------------------------------------------------------
(* TemplateEngine                                                          *)
(*                                                                         *)
(* A string is a sequence of characters. The characters that the engines   *)
(* look at are kept as they are ("{", "}", ".", "[", "]", " ", the digits  *)
(* "0" and "1"); a name such as "input" stands for the letters of that     *)
(* name and is one element of the sequence.                                *)

(* JavaScript values: t is the result of typeof, with null and array told  *)
(* apart; s holds a string, n a number, b a boolean, props the members of  *)
(* an object and items the elements of an array.                           *)
Undefined ==
    [t |-> "undefined", s |-> <<>>, n |-> 0, b |-> FALSE, props |-> <<>>,
     items |-> <<>>]

Null == [Undefined EXCEPT !.t = "null"]

Str(s) == [Undefined EXCEPT !.t = "string", !.s = s]

Num(n) == [Undefined EXCEPT !.t = "number", !.n = n]

Bool(b) == [Undefined EXCEPT !.t = "boolean", !.b = b]

Obj(props) == [Undefined EXCEPT !.t = "object", !.props = props]

Arr(items) == [Undefined EXCEPT !.t = "array", !.items = items]

(* the order in which the members of the context objects were written *)
KeyOrder ==
    <<<<"input">>, <<"steps">>, <<"context">>, <<"x">>, <<"n">>, <<"o">>,
      <<"a">>>>

(* TemplateContext values handed to the engines; their objects differ in  *)
(* content, so that two of them are the same object exactly when they are *)
(* equal                                                                   *)
MixedContext ==
    Obj((<<"input">> :>
            Obj((<<"x">> :> Str(<<"s">>))
                @@ (<<"n">> :> Null)
                @@ (<<"o">> :> Obj(<<"x">> :> Num(1)))
                @@ (<<"a">> :> Arr(<<Str(<<"s">>), Obj(<<"x">> :> Num(2))>>))))
        @@ (<<"steps">> :> Obj(<<>>))
        @@ (<<"context">> :> Obj(<<"n">> :> Null)))

NumberContext ==
    Obj((<<"input">> :> Obj(<<"x">> :> Num(1)))
        @@ (<<"steps">> :> Obj(<<>>))
        @@ (<<"context">> :> Obj(<<"n">> :> Null)))

EmptyContext ==
    Obj((<<"input">> :> Obj(<<>>))
        @@ (<<"steps">> :> Obj(<<>>))
        @@ (<<"context">> :> Obj(<<"n">> :> Null)))

(* String.prototype.trim on a sequence of characters *)
RECURSIVE TrimStart(_)
TrimStart(s) ==
    IF s # <<>> /\ Head(s) = " " THEN TrimStart(Tail(s)) ELSE s

RECURSIVE TrimEnd(_)
TrimEnd(s) ==
    IF s # <<>> /\ s[Len(s)] = " "
    THEN TrimEnd(SubSeq(s, 1, Len(s) - 1)) ELSE s

Trim(s) == TrimEnd(TrimStart(s))

(* String.prototype.indexOf(char, from), 1-based, 0 when there is none *)
RECURSIVE IndexOf(_, _, _)
IndexOf(s, char, from) ==
    IF from > Len(s) THEN 0
    ELSE IF s[from] = char THEN from
    ELSE IndexOf(s, char, from + 1)

(* parseInt(str, 10) on digits "0" and "1": leading blanks are skipped,   *)
(* the leading run of digits is read, NaN when there is no such run        *)
Digits == {"0", "1"}

RECURSIVE DigitRun(_)
DigitRun(s) ==
    IF s # <<>> /\ Head(s) \in Digits
    THEN <<Head(s)>> \o DigitRun(Tail(s)) ELSE <<>>

RECURSIVE Decimal(_)
Decimal(digits) ==
    IF digits = <<>> THEN 0
    ELSE 10 * Decimal(SubSeq(digits, 1, Len(digits) - 1))
         + (IF digits[Len(digits)] = "1" THEN 1 ELSE 0)

parseInt(str) ==
    LET run == DigitRun(TrimStart(str))
    IN  [nan |-> run = <<>>, n |-> Decimal(run)]

(* the parts of a path *)
Property(name) == [type |-> "property", name |-> name, index |-> 0]

Index(index) == [type |-> "index", name |-> <<>>, index |-> index]

PathError == [threw |-> TRUE, parts |-> <<>>]

RECURSIVE parsePathFrom(_, _, _, _)
parsePathFrom(path, i, current, parts) ==
    IF i > Len(path)
    THEN [threw |-> FALSE,
          parts |-> parts \o Opt(current # <<>>, Property(current))]
    ELSE LET char == path[i]
         IN  IF char = "."
             THEN parsePathFrom(path, i + 1, <<>>,
                                parts \o Opt(current # <<>>, Property(current)))
             ELSE IF char = "["
             THEN LET closingBracket == IndexOf(path, "]", i)
                      indexStr == SubSeq(path, i + 1, closingBracket - 1)
                      index == parseInt(indexStr)
                  IN  IF closingBracket = 0 THEN PathError
                      ELSE IF index.nan THEN PathError
                      ELSE parsePathFrom(path, closingBracket + 1, <<>>,
                                         parts
                                         \o Opt(current # <<>>, Property(current))
                                         \o <<Index(index.n)>>)
             ELSE parsePathFrom(path, i + 1, Append(current, char), parts)

parsePath(path) == parsePathFrom(path, 1, <<>>, <<>>)

(* current[part.name] and current[part.index] on an object or an array;    *)
(* a member name that is a canonical numeral addresses an array element    *)
IsArrayIndexName(name) ==
    /\ name # <<>>
    /\ \A k \in DOMAIN name : name[k] \in Digits
    /\ Len(name) = 1 \/ name[1] # "0"

ItemAt(value, index) ==
    IF index + 1 \in DOMAIN value.items THEN value.items[index + 1]
    ELSE Undefined

MemberOf(value, name) ==
    IF value.t = "array"
    THEN (IF IsArrayIndexName(name) THEN ItemAt(value, Decimal(name))
          ELSE Undefined)
    ELSE IF name \in DOMAIN value.props THEN value.props[name]
    ELSE Undefined

ResolveError == [threw |-> TRUE, value |-> Undefined]

RECURSIVE resolveParts(_, _)
resolveParts(parts, current) ==
    IF parts = <<>> THEN [threw |-> FALSE, value |-> current]
    ELSE LET part == Head(parts)
         IN  IF current.t \in {"null", "undefined"} THEN ResolveError
             ELSE IF current.t \notin {"object", "array"} THEN ResolveError
             ELSE IF part.type = "property"
             THEN resolveParts(Tail(parts), MemberOf(current, part.name))
             ELSE IF current.t # "array" THEN ResolveError
             ELSE resolveParts(Tail(parts), ItemAt(current, part.index))

resolvePath(path, ctx) ==
    LET parsed == parsePath(path)
    IN  IF parsed.threw THEN ResolveError
        ELSE resolveParts(parsed.parts, ctx)

(* String(number) for the natural numbers of the model *)
RECURSIVE Numeral(_)
Numeral(n) ==
    LET digit == <<"0", "1", "2", "3", "4", "5", "6", "7", "8", "9">>[(n % 10) + 1]
    IN  IF n < 10 THEN <<digit>> ELSE Numeral(n \div 10) \o <<digit>>

(* JSON.stringify *)
RECURSIVE stringify(_)
RECURSIVE stringifyItems(_)
RECURSIVE stringifyMembers(_, _, _)

stringify(value) ==
    IF value.t = "string" THEN <<"\"">> \o value.s \o <<"\"">>
    ELSE IF value.t = "number" THEN Numeral(value.n)
    ELSE IF value.t = "boolean"
    THEN (IF value.b THEN <<"true">> ELSE <<"false">>)
    ELSE IF value.t = "array"
    THEN <<"[">> \o stringifyItems(value.items) \o <<"]">>
    ELSE IF value.t = "object"
    THEN <<"{">> \o stringifyMembers(value.props, KeyOrder, FALSE) \o <<"}">>
    ELSE <<"null">>

stringifyItems(items) ==
    IF items = <<>> THEN <<>>
    ELSE stringify(Head(items))
         \o (IF Tail(items) = <<>> THEN <<>>
             ELSE <<",">> \o stringifyItems(Tail(items)))

stringifyMembers(props, keys, comma) ==
    IF keys = <<>> THEN <<>>
    ELSE LET key == Head(keys)
         IN  IF key \in DOMAIN props /\ props[key].t # "undefined"
             THEN (IF comma THEN <<",">> ELSE <<>>)
                  \o <<"\"">> \o key \o <<"\"", ":">>
                  \o stringify(props[key])
                  \o stringifyMembers(props, Tail(keys), TRUE)
             ELSE stringifyMembers(props, Tail(keys), comma)

formatValue_UndefinedAsText(value) ==
    IF value.t = "null" THEN <<>>
    ELSE IF value.t = "undefined" THEN <<"undefined">>
    ELSE IF value.t = "string" THEN value.s
    ELSE IF value.t = "number" THEN Numeral(value.n)
    ELSE IF value.t = "boolean"
    THEN (IF value.b THEN <<"true">> ELSE <<"false">>)
    ELSE stringify(value)

formatValue(value) ==
    IF value.t \in {"null", "undefined"} THEN <<>>
    ELSE IF value.t = "string" THEN value.s
    ELSE IF value.t = "number" THEN Numeral(value.n)
    ELSE IF value.t = "boolean"
    THEN (IF value.b THEN <<"true">> ELSE <<"false">>)
    ELSE stringify(value)

(* the pattern /\{\{([^}]+)\}\}/ tried at position i: the position of the  *)
(* last character of the match, 0 when there is no match at i              *)
MatchAt(text, i) ==
    LET closing == IndexOf(text, "}", i + 2)
    IN  IF /\ i + 1 <= Len(text)
           /\ text[i] = "{"
           /\ text[i + 1] = "{"
           /\ closing > i + 2
           /\ closing + 1 <= Len(text)
           /\ text[closing + 1] = "}"
        THEN closing + 1 ELSE 0

(* the replace callback: what one match is replaced by *)
Replacement_EmptyOnFailure(match, path, ctx) ==
    LET trimmedPath == Trim(path)
        resolution == resolvePath(trimmedPath, ctx)
    IN  [match |-> match, path |-> trimmedPath,
         by |-> IF resolution.threw THEN <<>>
                ELSE formatValue(resolution.value)]

Replacement(match, path, ctx) ==
    LET trimmedPath == Trim(path)
        resolution == resolvePath(trimmedPath, ctx)
    IN  [match |-> match, path |-> trimmedPath,
         by |-> IF resolution.threw THEN match
                ELSE formatValue(resolution.value)]

RECURSIVE replaceFrom(_, _, _, _, _)
replaceFrom(text, i, ctx, out, replacements) ==
    IF i > Len(text)
    THEN [call |-> "resolveTemplate", threw |-> FALSE, result |-> out,
          replacements |-> replacements]
    ELSE LET end == MatchAt(text, i)
             replacement == Replacement(SubSeq(text, i, end),
                                        SubSeq(text, i + 2, end - 2),
                                        ctx)
         IN  IF end = 0
             THEN replaceFrom(text, i + 1, ctx,
                              Append(out, text[i]), replacements)
             ELSE replaceFrom(text, end + 1, ctx,
                              out \o replacement.by,
                              Append(replacements, replacement))

resolveTemplate(text, ctx) ==
    replaceFrom(text, 1, ctx, <<>>, <<>>)

(* the templates and contexts resolveTemplate is called on *)
RECURSIVE Concat(_)
Concat(seqs) == IF seqs = <<>> THEN <<>> ELSE Head(seqs) \o Concat(Tail(seqs))

PathSegments ==
    {<<".", "x">>, <<".", "n">>, <<".", "o">>, <<".", "a">>, <<".", "u">>,
     <<".", "0">>, <<"[", "0", "]">>, <<"[", "1", "]">>, <<"[", "x", "]">>,
     <<"[">>}

RECURSIVE SegmentSeqs(_)
SegmentSeqs(n) ==
    IF n = 0 THEN {<<>>}
    ELSE SegmentSeqs(n - 1)
         \cup {segments \o segment :
                 segments \in SegmentSeqs(n - 1), segment \in PathSegments}

TemplatePaths ==
    {root \o segments :
        root \in {<<"input">>, <<>>}, segments \in SegmentSeqs(MaxSegments)}

Placeholder(pad, path) == <<"{", "{">> \o pad \o path \o <<"}", "}">>

Templates ==
    {Concat(<<before, Placeholder(pad, path), between, second>>) :
        before \in {<<>>, <<"Q">>, <<"{">>},
        pad \in {<<>>, <<" ">>},
        path \in TemplatePaths,
        between \in {<<>>, <<"}">>},
        second \in {<<>>, <<"{", "{">>,
                    Placeholder(<<>>, <<"input", ".", "n", ".", "x">>),
                    Placeholder(<<>>, <<"input", ".", "x">>)}}

TemplateContexts == {MixedContext, EmptyContext}

InitTemplate ==
    /\ workflow = NoWorkflow
    /\ ExecutorIdle
    /\ ValidatorIdle
    /\ RegistryIdle
    /\ ExpressionIdle
    /\ UtilitiesIdle
    /\ template \in Templates
    /\ templateContext \in TemplateContexts
    /\ resolved = NoResolved

Resolve ==
    /\ resolved = NoResolved
    /\ resolved' = resolveTemplate(template, templateContext)
    /\ UNCHANGED <<executorVars, utilityVars, validatorVars, registryVars, expressionVars,
                   template, templateContext>>

NextTemplate ==
    \/ Resolve

SpecTemplate == InitTemplate /\ [][NextTemplate]_vars

----------------------------------------------------------------------------
(* ExpressionEngine                                                        *)
(*                                                                         *)
(* An expression is a sequence of characters, as a template is: operator   *)
(* characters, blanks, quotes and digits are kept as they are, and a word  *)
(* such as "true" or "input" stands for its letters.                       *)

Quotes == {"\"", "'"}

ComparisonOps ==
    {<<"=", "=">>, <<"!", "=">>, <<">", "=">>, <<"<", "=">>, <<">">>, <<"<">>,
     <<"contains">>, <<"startsWith">>, <<"endsWith">>}

LogicalOps == {<<"&", "&">>, <<"|", "|">>}

(* tokens.push(current.trim()) when current.trim() is not empty *)
PushCurrent(tokens, current) ==
    tokens \o Opt(Trim(current) # <<>>, Trim(current))

RECURSIVE tokenizeFrom(_, _, _, _, _, _)
tokenizeFrom(expr, i, tokens, current, inString, stringChar) ==
    IF i > Len(expr) THEN PushCurrent(tokens, current)
    ELSE LET char == expr[i]
             nextChar == IF i + 1 <= Len(expr) THEN expr[i + 1] ELSE ""
         IN  IF char \in Quotes /\ ~inString
             THEN tokenizeFrom(expr, i + 1, tokens, <<char>>, TRUE, char)
             ELSE IF char = stringChar /\ inString
             THEN tokenizeFrom(expr, i + 1,
                               Append(tokens, Append(current, char)), <<>>,
                               FALSE, stringChar)
             ELSE IF inString
             THEN tokenizeFrom(expr, i + 1, tokens, Append(current, char),
                               inString, stringChar)
             ELSE IF \/ char = "&" /\ nextChar = "&"
                     \/ char = "|" /\ nextChar = "|"
                     \/ char = "=" /\ nextChar = "="
                     \/ char = "!" /\ nextChar = "="
                     \/ char = ">" /\ nextChar = "="
                     \/ char = "<" /\ nextChar = "="
             THEN tokenizeFrom(expr, i + 2,
                               Append(PushCurrent(tokens, current),
                                      <<char, nextChar>>),
                               <<>>, inString, stringChar)
             ELSE IF \/ char = ">" \/ char = "<"
                     \/ char = "!" /\ nextChar # "="
                     \/ char = "(" \/ char = ")"
             THEN tokenizeFrom(expr, i + 1,
                               Append(PushCurrent(tokens, current), <<char>>),
                               <<>>, inString, stringChar)
             ELSE IF char = " " /\ Trim(current) # <<>>
             THEN tokenizeFrom(expr, i + 1, PushCurrent(tokens, current),
                               <<>>, inString, stringChar)
             ELSE IF char # " "
             THEN tokenizeFrom(expr, i + 1, tokens, Append(current, char),
                               inString, stringChar)
             ELSE tokenizeFrom(expr, i + 1, tokens, current, inString,
                               stringChar)

tokenize(expr) == tokenizeFrom(expr, 1, <<>>, <<>>, FALSE, "")

(* the /^-?\d+(\.\d+)?$/ test of parseValue on the digits of the model *)
IsNumberToken(token) ==
    /\ token # <<>>
    /\ \A k \in DOMAIN token : token[k] \in Digits

IsStringToken(token) ==
    /\ token # <<>>
    /\ \E quote \in Quotes : token[1] = quote /\ token[Len(token)] = quote

Literal(value) == [type |-> "literal", value |-> value, path |-> <<>>]

Variable(path) == [type |-> "variable", value |-> Undefined, path |-> path]

ParseError == [threw |-> TRUE, node |-> Literal(Undefined), rest |-> <<>>]

Parsed(node, rest) == [threw |-> FALSE, node |-> node, rest |-> rest]

parseValue(tokens) ==
    IF tokens = <<>> THEN ParseError
    ELSE LET token == Head(tokens)
         IN  Parsed(IF IsStringToken(token)
                    THEN Literal(Str(SubSeq(token, 2, Len(token) - 1)))
                    ELSE IF IsNumberToken(token)
                    THEN Literal(Num(Decimal(token)))
                    ELSE IF token = <<"true">> THEN Literal(Bool(TRUE))
                    ELSE IF token = <<"false">> THEN Literal(Bool(FALSE))
                    ELSE IF token = <<"null">> THEN Literal(Null)
                    ELSE Variable(token),
                    Tail(tokens))

RECURSIVE parseLogical(_)
RECURSIVE parseLogicalLoop(_, _)
RECURSIVE parseNot(_)
RECURSIVE parseComparison(_)

parseComparison(tokens) ==
    IF tokens # <<>> /\ Head(tokens) = <<"(">>
    THEN LET expr == parseLogical(Tail(tokens))
         IN  IF expr.threw THEN ParseError
             ELSE IF expr.rest # <<>> /\ Head(expr.rest) = <<")">>
             THEN Parsed(expr.node, Tail(expr.rest))
             ELSE expr
    ELSE LET left == parseValue(tokens)
             right == parseValue(Tail(left.rest))
         IN  IF left.threw THEN ParseError
             ELSE IF left.rest # <<>> /\ Head(left.rest) \in ComparisonOps
             THEN (IF right.threw THEN ParseError
                   ELSE Parsed([type |-> "comparison", left |-> left.node,
                                operator |-> Head(left.rest),
                                right |-> right.node],
                               right.rest))
             ELSE Parsed([type |-> "value", value |-> left.node], left.rest)

parseNot_BindsToValue(tokens) ==
    IF tokens # <<>> /\ Head(tokens) = <<"!">>
    THEN LET operand == parseValue(Tail(tokens))
         IN  IF operand.threw THEN ParseError
             ELSE Parsed([type |-> "not",
                          expression |-> [type |-> "value",
                                          value |-> operand.node]],
                         operand.rest)
    ELSE parseComparison(tokens)

parseNot(tokens) ==
    IF tokens # <<>> /\ Head(tokens) = <<"!">>
    THEN LET expr == parseComparison(Tail(tokens))
         IN  IF expr.threw THEN ParseError
             ELSE Parsed([type |-> "not", expression |-> expr.node], expr.rest)
    ELSE parseComparison(tokens)

parseLogicalLoop(left, tokens) ==
    IF tokens # <<>> /\ Head(tokens) \in LogicalOps
    THEN LET right == parseNot(Tail(tokens))
         IN  IF right.threw THEN ParseError
             ELSE parseLogicalLoop([type |-> "logical", left |-> left,
                                    operator |-> Head(tokens),
                                    right |-> right.node],
                                   right.rest)
    ELSE Parsed(left, tokens)

parseLogical(tokens) ==
    LET left == parseNot(tokens)
    IN  IF left.threw THEN ParseError
        ELSE parseLogicalLoop(left.node, left.rest)

parseExpression(expr) == parseLogical(tokenize(expr))

(* !!value *)
Truthy(value) ==
    IF value.t \in {"undefined", "null"} THEN FALSE
    ELSE IF value.t = "boolean" THEN value.b
    ELSE IF value.t = "number" THEN value.n # 0
    ELSE IF value.t = "string" THEN value.s # <<>>
    ELSE TRUE

resolveValue(value, ctx) ==
    IF value.type = "literal" THEN value.value
    ELSE LET resolution == resolvePath(value.path, ctx)
         IN  IF resolution.threw THEN Undefined ELSE resolution.value

(* String.prototype.includes / startsWith / endsWith *)
StartsWith(s, prefix) ==
    Len(prefix) <= Len(s) /\ SubSeq(s, 1, Len(prefix)) = prefix

Includes(s, part) ==
    \E k \in 0..(Len(s) - Len(part)) :
        SubSeq(s, k + 1, k + Len(part)) = part

EndsWith(s, suffix) ==
    /\ Len(suffix) <= Len(s)
    /\ SubSeq(s, Len(s) - Len(suffix) + 1, Len(s)) = suffix

evaluateComparison(left, operator, right) ==
    LET numbers == left.t = "number" /\ right.t = "number"
        strings == left.t = "string" /\ right.t = "string"
    IN  IF operator = <<"=", "=">> THEN left = right
        ELSE IF operator = <<"!", "=">> THEN left # right
        ELSE IF operator = <<">">> THEN numbers /\ left.n > right.n
        ELSE IF operator = <<"<">> THEN numbers /\ left.n < right.n
        ELSE IF operator = <<">", "=">> THEN numbers /\ left.n >= right.n
        ELSE IF operator = <<"<", "=">> THEN numbers /\ left.n <= right.n
        ELSE IF operator = <<"contains">>
        THEN strings /\ Includes(left.s, right.s)
        ELSE IF operator = <<"startsWith">>
        THEN strings /\ StartsWith(left.s, right.s)
        ELSE IF operator = <<"endsWith">>
        THEN strings /\ EndsWith(left.s, right.s)
        ELSE FALSE

RECURSIVE evaluateNode(_, _)
evaluateNode(node, ctx) ==
    IF node.type = "comparison"
    THEN evaluateComparison(resolveValue(node.left, ctx), node.operator,
                            resolveValue(node.right, ctx))
    ELSE IF node.type = "logical"
    THEN (IF node.operator = <<"&", "&">>
          THEN evaluateNode(node.left, ctx) /\ evaluateNode(node.right, ctx)
          ELSE evaluateNode(node.left, ctx) \/ evaluateNode(node.right, ctx))
    ELSE IF node.type = "not" THEN ~evaluateNode(node.expression, ctx)
    ELSE IF node.type = "value" THEN Truthy(resolveValue(node.value, ctx))
    ELSE FALSE

evaluateExpression(expr, ctx) ==
    LET ast == parseExpression(expr)
    IN  [call |-> "evaluateExpression", threw |-> FALSE,
         result |-> IF ast.threw THEN FALSE ELSE evaluateNode(ast.node, ctx)]

(* the expressions and contexts evaluateExpression is called on *)
Words == {<<"true">>, <<"false">>, <<"1">>, <<"input", ".", "x">>}

Lexemes ==
    Words \cup LogicalOps
    \cup {<<"=", "=">>, <<"!">>, <<"(">>, <<")">>, <<" ">>}

RECURSIVE LexemeSeqs(_)
LexemeSeqs(n) ==
    IF n = 0 THEN {<<>>}
    ELSE LexemeSeqs(n - 1)
         \cup {lexemes \o lexeme :
                 lexemes \in LexemeSeqs(n - 1), lexeme \in Lexemes}

(* expressions written to a shape: comparisons and negations, chains of    *)
(* two and three operands, and chains with a parenthesized part            *)
ComparisonShapes ==
    {Concat(<<left, operator, right>>) :
        left \in Words, operator \in {<<"=", "=">>, <<" ", "!", "=", " ">>},
        right \in Words}

NotShapes ==
    {<<"!">> \o operand : operand \in Words \cup ComparisonShapes}

ChainOperands == {<<"true">>, <<"false">>, <<"!", "true">>, <<"!", "false">>}

ChainShapes ==
    {Concat(<<a, first, b>>) :
        a \in ChainOperands, first \in LogicalOps, b \in ChainOperands}
    \cup {Concat(<<open, a, first, b, close, second, c, end>>) :
            open \in {<<>>, <<"(">>, <<"!", "(">>},
            a \in ChainOperands, first \in LogicalOps, b \in ChainOperands,
            close \in {<<>>, <<")">>}, second \in LogicalOps,
            c \in ChainOperands, end \in {<<>>}}
    \cup {Concat(<<a, first, <<"(">>, b, second, c, <<")">>>>) :
            a \in ChainOperands, first \in LogicalOps, b \in ChainOperands,
            second \in LogicalOps, c \in ChainOperands}

Expressions ==
    LexemeSeqs(MaxLexemes) \cup ComparisonShapes \cup NotShapes
    \cup ChainShapes

ExpressionContexts == {NumberContext, EmptyContext}

InitExpression ==
    /\ workflow = NoWorkflow
    /\ ExecutorIdle
    /\ ValidatorIdle
    /\ RegistryIdle
    /\ TemplateIdle
    /\ UtilitiesIdle
    /\ expression \in Expressions
    /\ expressionContext \in ExpressionContexts
    /\ evaluated = NoEvaluated

Evaluate ==
    /\ evaluated = NoEvaluated
    /\ evaluated' = evaluateExpression(expression, expressionContext)
    /\ UNCHANGED <<executorVars, utilityVars, validatorVars, registryVars, templateVars,
                   expression, expressionContext>>

NextExpression ==
    \/ Evaluate

SpecExpression == InitExpression /\ [][NextExpression]_vars

----------------------------------------------------------------------------
(* The clock the utilities read.  Date.now() is positive, so 0 can stand   *)
(* for an undefined time: `!this.lastFailureTime` is true for both.        *)

Tick ==
    /\ clock < MaxTime
    /\ clock' = clock + 1
    /\ UNCHANGED <<executorVars, validatorVars, registryVars, templateVars,
                   expressionVars, breakerVars, limiterVars, cacheVars>>

----------------------------------------------------------------------------
(* CircuitBreaker.  execute runs up to `await fn()` in one step and        *)
(* resumes when fn() settles, so calls may overlap: inFlight counts the    *)
(* calls that are waiting for fn().  monitoringWindowMs is never read.     *)

BreakerConfigs == [failureThreshold : {1, 2}, resetTimeout : {1, 2}]

(* reset() *)
reset(b) ==
    [state |-> "closed", failures |-> 0, lastFailureTime |-> 0,
     successCount |-> 0]

(* private onSuccess() *)
onSuccess(b) ==
    IF b.state = "half-open"
    THEN LET counted == [b EXCEPT !.successCount = @ + 1]
         IN IF counted.successCount >= SuccessesToClose
            THEN reset(counted) ELSE counted
    ELSE [b EXCEPT !.failures = 0]

(* private onFailure() *)
onFailure(b, config, at) ==
    LET recorded == [b EXCEPT !.failures = @ + 1, !.lastFailureTime = at]
        opened == IF recorded.failures >= config.failureThreshold
                  THEN [recorded EXCEPT !.state = "open"] ELSE recorded
    IN IF opened.state = "half-open"
       THEN [opened EXCEPT !.state = "open", !.successCount = 0]
       ELSE opened

(* private shouldAttemptReset() *)
shouldAttemptReset_Early(b, config, at) ==
    IF b.lastFailureTime = 0 THEN FALSE
    ELSE at - b.lastFailureTime >= config.resetTimeout - 1

shouldAttemptReset(b, config, at) ==
    IF b.lastFailureTime = 0 THEN FALSE
    ELSE at - b.lastFailureTime >= config.resetTimeout

InitBreaker ==
    /\ workflow = NoWorkflow
    /\ ExecutorIdle
    /\ ValidatorIdle /\ RegistryIdle /\ TemplateIdle /\ ExpressionIdle
    /\ clock = 1
    /\ LimiterIdle /\ CacheIdle
    /\ breakerConfig \in BreakerConfigs
    /\ breaker = [state |-> "closed", failures |-> 0, lastFailureTime |-> 0,
                  successCount |-> 0]
    /\ inFlight = 0
    /\ history = <<>>
    /\ outcome = [call |-> "", threw |-> FALSE, invoked |-> FALSE]

(* execute, from its entry to `await fn()` or to the throw *)
BreakerExecute ==
    /\ Len(history) + inFlight < MaxCalls
    /\ inFlight < MaxInFlight
    /\ IF breaker.state = "open"
          /\ ~shouldAttemptReset(breaker, breakerConfig, clock)
       THEN /\ outcome' = [call |-> "execute", threw |-> TRUE,
                           invoked |-> FALSE]
            /\ UNCHANGED <<breaker, inFlight>>
       ELSE /\ breaker' = IF breaker.state = "open"
                          THEN [breaker EXCEPT !.state = "half-open"]
                          ELSE breaker
            /\ inFlight' = inFlight + 1
            /\ outcome' = [call |-> "execute", threw |-> FALSE,
                           invoked |-> TRUE]
    /\ UNCHANGED <<executorVars, validatorVars, registryVars, templateVars,
                   expressionVars, limiterVars, cacheVars, clock,
                   breakerConfig, history>>

(* execute: fn() resolved *)
FnResolves ==
    /\ inFlight > 0
    /\ inFlight' = inFlight - 1
    /\ breaker' = onSuccess(breaker)
    /\ history' = Append(history, "success")
    /\ outcome' = [call |-> "resolved", threw |-> FALSE, invoked |-> TRUE]
    /\ UNCHANGED <<executorVars, validatorVars, registryVars, templateVars,
                   expressionVars, limiterVars, cacheVars, clock,
                   breakerConfig>>

(* execute: fn() rejected *)
FnRejects ==
    /\ inFlight > 0
    /\ inFlight' = inFlight - 1
    /\ breaker' = onFailure(breaker, breakerConfig, clock)
    /\ history' = Append(history, "failure")
    /\ outcome' = [call |-> "rejected", threw |-> TRUE, invoked |-> TRUE]
    /\ UNCHANGED <<executorVars, validatorVars, registryVars, templateVars,
                   expressionVars, limiterVars, cacheVars, clock,
                   breakerConfig>>

(* reset() called from outside *)
BreakerReset ==
    /\ breaker' = reset(breaker)
    /\ outcome' = [call |-> "reset", threw |-> FALSE, invoked |-> FALSE]
    /\ UNCHANGED <<executorVars, validatorVars, registryVars, templateVars,
                   expressionVars, limiterVars, cacheVars, clock,
                   breakerConfig, inFlight, history>>

NextBreaker ==
    \/ BreakerExecute
    \/ FnResolves
    \/ FnRejects
    \/ BreakerReset
    \/ Tick

SpecBreaker == InitBreaker /\ [][NextBreaker]_vars

----------------------------------------------------------------------------
(* RateLimiter.  checkLimit has no await before it returns, so a call is   *)
(* one step.  requests maps a key to the timestamps of the calls answered  *)
(* allowed that have not been filtered out yet.                            *)

Organizations == {<<"o1">>, <<"o2">>}

Workflow1 == <<"w1">>

LimiterConfigs == [maxRequests : {1, 2}, windowMs : {1, 2}]

(* private defaultKeyGenerator: `${organizationId}:${workflowId}` *)
defaultKeyGenerator(organizationId, workflowId) ==
    organizationId \o <<":">> \o workflowId

(* timestamps.filter(ts => ts > windowStart) *)
RECURSIVE ActiveTimestamps(_, _)
ActiveTimestamps(timestamps, windowStart) ==
    IF timestamps = <<>> THEN <<>>
    ELSE IF Head(timestamps) > windowStart
         THEN <<Head(timestamps)>>
              \o ActiveTimestamps(Tail(timestamps), windowStart)
         ELSE ActiveTimestamps(Tail(timestamps), windowStart)

(* this.requests.get(key) || [] *)
TimestampsOf(reqs, key) == IF key \in DOMAIN reqs THEN reqs[key] ELSE <<>>

(* checkLimit: the answer and the requests map it leaves *)
checkLimit_ShortWindow(reqs, config, organizationId, workflowId, at) ==
    LET key == defaultKeyGenerator(organizationId, workflowId)
        windowStart == at - config.windowMs
        timestamps == ActiveTimestamps(TimestampsOf(reqs, key),
                                       windowStart + 1)
        room == config.maxRequests - Len(timestamps)
        remaining == IF room > 0 THEN room ELSE 0
        allowed == remaining > 0
    IN [requests |-> IF allowed
                     THEN (key :> Append(timestamps, at)) @@ reqs
                     ELSE reqs,
        allowed |-> allowed,
        info |-> [limit |-> config.maxRequests,
                  remaining |-> IF allowed THEN remaining - 1 ELSE 0,
                  resetAt |-> at + config.windowMs]]

checkLimit(reqs, config, organizationId, workflowId, at) ==
    LET key == defaultKeyGenerator(organizationId, workflowId)
        windowStart == at - config.windowMs
        timestamps == ActiveTimestamps(TimestampsOf(reqs, key), windowStart)
        room == config.maxRequests - Len(timestamps)
        remaining == IF room > 0 THEN room ELSE 0
        allowed == remaining > 0
    IN [requests |-> IF allowed
                     THEN (key :> Append(timestamps, at)) @@ reqs
                     ELSE reqs,
        allowed |-> allowed,
        info |-> [limit |-> config.maxRequests,
                  remaining |-> IF allowed THEN remaining - 1 ELSE 0,
                  resetAt |-> at + config.windowMs]]

(* cleanup: keys without an active timestamp are deleted *)
cleanup(reqs, config, at) ==
    LET windowStart == at - config.windowMs
        kept == {key \in DOMAIN reqs :
                    ActiveTimestamps(reqs[key], windowStart) # <<>>}
    IN [key \in kept |-> ActiveTimestamps(reqs[key], windowStart)]

InitLimiter ==
    /\ workflow = NoWorkflow
    /\ ExecutorIdle
    /\ ValidatorIdle /\ RegistryIdle /\ TemplateIdle /\ ExpressionIdle
    /\ clock = 1
    /\ BreakerIdle /\ CacheIdle
    /\ limiterConfig \in LimiterConfigs
    /\ requests = <<>>
    /\ answers = <<>>

CheckLimit(organizationId, workflowId) ==
    /\ Len(answers) < MaxCalls
    /\ LET answer == checkLimit(requests, limiterConfig, organizationId,
                                workflowId, clock)
       IN /\ requests' = answer.requests
          /\ answers' = Append(answers,
                 [key |-> defaultKeyGenerator(organizationId, workflowId),
                  at |-> clock, allowed |-> answer.allowed,
                  info |-> answer.info])
    /\ UNCHANGED <<executorVars, validatorVars, registryVars, templateVars,
                   expressionVars, breakerVars, cacheVars, clock,
                   limiterConfig>>

Cleanup ==
    /\ requests' = cleanup(requests, limiterConfig, clock)
    /\ UNCHANGED <<executorVars, validatorVars, registryVars, templateVars,
                   expressionVars, breakerVars, cacheVars, clock,
                   limiterConfig, answers>>

NextLimiter ==
    \/ \E organizationId \in Organizations :
          CheckLimit(organizationId, Workflow1)
    \/ Cleanup
    \/ Tick

SpecLimiter == InitLimiter /\ [][NextLimiter]_vars

----------------------------------------------------------------------------
(* Cache.  store is the Map in insertion order: set on a key the Map holds *)
(* replaces the entry where it is, set on a new key appends.  The empty    *)
(* string is a key like any other for the Map and falsy for `if (lruKey)`. *)

CacheKeys == {"", "a", "b"}

CacheOptionsGiven == [ttlMs : {0, 1}, maxSize : {0, 2}]

(* constructor: options.ttlMs || 300000 *)
TtlMs(opts) == IF opts.ttlMs # 0 THEN opts.ttlMs ELSE DefaultTtlMs

(* constructor: options.maxSize || 1000 *)
MaxSize(opts) == IF opts.maxSize # 0 THEN opts.maxSize ELSE DefaultMaxSize

(* position of a key in the store, 0 when the store does not hold it *)
StoreIndex(entries, key) ==
    IF \E i \in DOMAIN entries : entries[i].key = key
    THEN CHOOSE i \in DOMAIN entries : entries[i].key = key
    ELSE 0

(* this.store.delete(key) *)
StoreDelete(entries, key) ==
    LET at == StoreIndex(entries, key)
    IN IF at = 0 THEN entries
       ELSE SubSeq(entries, 1, at - 1) \o SubSeq(entries, at + 1, Len(entries))

(* this.store.set(key, entry) *)
StoreSet(entries, entry) ==
    LET at == StoreIndex(entries, entry.key)
    IN IF at = 0 THEN Append(entries, entry)
       ELSE [entries EXCEPT ![at] = entry]

(* evictLRU: the loop over the entries; lru is <<lruKey, lruHits>>, with   *)
(* -1 for the Infinity lruHits starts from and <<>> for an undefined key   *)
RECURSIVE FewestHits(_, _, _)
FewestHits(entries, i, lru) ==
    IF i > Len(entries) THEN lru
    ELSE IF lru[2] = -1 \/ entries[i].hits < lru[2]
         THEN FewestHits(entries, i + 1, <<<<entries[i].key>>, entries[i].hits>>)
         ELSE FewestHits(entries, i + 1, lru)

(* private evictLRU() *)
evictLRU(entries) ==
    LET lruKey == FewestHits(entries, 1, <<<<>>, -1>>)[1]
    IN IF lruKey # <<>> /\ lruKey[1] # ""
       THEN StoreDelete(entries, lruKey[1])
       ELSE entries

(* set(key, value, ttlMs) *)
set(entries, opts, key, ttlMs, at) ==
    LET room == IF Len(entries) >= MaxSize(opts)
                   /\ StoreIndex(entries, key) = 0
                THEN evictLRU(entries) ELSE entries
    IN StoreSet(room,
           [key |-> key,
            expiresAt |-> at + (IF ttlMs # 0 THEN ttlMs ELSE TtlMs(opts)),
            createdAt |-> at,
            hits |-> 0])

(* get(key): the store it leaves and whether a value is returned *)
cacheGet(entries, key, at) ==
    LET i == StoreIndex(entries, key)
    IN IF i = 0 THEN [store |-> entries, found |-> FALSE]
       ELSE IF at > entries[i].expiresAt
       THEN [store |-> StoreDelete(entries, key), found |-> FALSE]
       ELSE [store |-> [entries EXCEPT ![i].hits = @ + 1], found |-> TRUE]

(* the keys read or set, without key, in the order of their last access *)
Without(keys, key) == SelectSeq(keys, LAMBDA k : k # key)

StoreKeys(entries) == {entries[i].key : i \in DOMAIN entries}

InitCache ==
    /\ workflow = NoWorkflow
    /\ ExecutorIdle
    /\ ValidatorIdle /\ RegistryIdle /\ TemplateIdle /\ ExpressionIdle
    /\ clock = 1
    /\ BreakerIdle /\ LimiterIdle
    /\ cacheOptions \in CacheOptionsGiven
    /\ store = <<>>
    /\ accesses = <<>>

CacheSet(key, ttlMs) ==
    /\ store' = set(store, cacheOptions, key, ttlMs, clock)
    /\ accesses' = Append(Without(accesses, key), key)
    /\ UNCHANGED <<executorVars, validatorVars, registryVars, templateVars,
                   expressionVars, breakerVars, limiterVars, clock,
                   cacheOptions>>

(* get(key), and has(key), which is get(key) !== undefined *)
CacheGet(key) ==
    /\ \A i \in DOMAIN store : store[i].key = key => store[i].hits < MaxHits
    /\ store' = cacheGet(store, key, clock).store
    /\ accesses' = IF cacheGet(store, key, clock).found
                   THEN Append(Without(accesses, key), key)
                   ELSE Without(accesses, key)
    /\ UNCHANGED <<executorVars, validatorVars, registryVars, templateVars,
                   expressionVars, breakerVars, limiterVars, clock,
                   cacheOptions>>

NextCache ==
    \/ \E key \in CacheKeys : CacheSet(key, 0)
    \/ \E key \in CacheKeys : CacheGet(key)
    \/ Tick

SpecCache == InitCache /\ [][NextCache]_vars

----------------------------------------------------------------------------
(* Properties *)

StepById(stepId) == workflow.steps[FindStepIndex(workflow.steps, stepId)]

LastStepExecution ==
    execution.stepExecutions[Len(execution.stepExecutions)]

TerminalStatuses == {"completed", "failed", "timeout", "cancelled"}

(* C1: for every call of execute, with a valid or an invalid workflow and  *)
(* whatever the handlers do, no exception escapes to the caller.           *)
C1_NoExceptionEscapes == pc # "thrown"

(* C2: when a step whose handler failed (returned success=false or threw,  *)
(* retries exhausted) declares no onFailure target, its StepExecution is   *)
(* failed and the run ends failed, never completed.                        *)
C2_FailedStepFailsRun ==
    \A i \in DOMAIN execution.stepExecutions :
        LET entry == execution.stepExecutions[i]
        IN (entry.status = "failed" /\ StepById(entry.stepId).onFailure = NoStep)
           => /\ execution.status # "completed"
              /\ pc = "returned" => execution.status = "failed"

(* C3: the status of the execution record only moves                       *)
(* pending -> running -> one of completed, failed, timeout, cancelled;     *)
(* the record starts pending, never skips running, never moves backwards,  *)
(* and a terminal status is never changed.                                 *)
C3_StatusTransitions ==
    [][execution'.status # execution.status =>
          \/ execution.status = "none" /\ execution'.status = "pending"
          \/ execution.status = "pending" /\ execution'.status = "running"
          \/ execution.status = "running"
               /\ execution'.status \in TerminalStatuses]_vars

C3_Witness ==
    /\ pc = "returned"
    /\ execution.status = "completed"
    /\ Len(execution.stepExecutions) = 2

(* C4: when the validator finds the workflow invalid, execute fails at     *)
(* once with a validation error: no handler is invoked and no              *)
(* StepExecution entry is created.                                         *)
C4_InvalidNeverRuns ==
    ~validate(workflow).valid =>
        /\ pc \in {"idle", "thrown"}
        /\ pc = "thrown" => thrown.name = "WorkflowValidationError"
        /\ calls = 0
        /\ execution.stepExecutions = <<>>
        /\ execution.status = "none"

C4_Witness ==
    /\ pc = "thrown"
    /\ ~validate(workflow).valid
    /\ Len(workflow.steps) = 2

(* C5: a step with maxAttempts = 3 whose handler fails twice and then      *)
(* succeeds has exactly one StepExecution entry, completed, with           *)
(* retryCount = 2.                                                         *)
C5_RetryCountAfterTwoFailures ==
    (/\ pc \in {"loop", "returned"}
     /\ execution.stepExecutions # <<>>
     /\ calls = 3
     /\ LastStepExecution.status = "completed"
     /\ StepById(LastStepExecution.stepId).retry.maxAttempts = 3)
    => /\ LastStepExecution.retryCount = 2
       /\ Cardinality({i \in DOMAIN execution.stepExecutions :
              execution.stepExecutions[i].stepId = LastStepExecution.stepId})
          = 1

(* C6: within one execution of a step the handler is invoked at most     *)
(* retry.maxAttempts times (once without a retry policy); every attempt    *)
(* that fails with an error is followed by another attempt while attempts  *)
(* remain; when every attempt has failed, the error of the last attempt is *)
(* the one propagated.                                                     *)
DeclaredAttempts(step) ==
    IF step.retry = NoRetry THEN 1 ELSE step.retry.maxAttempts

C8_TimeoutEndsInTimeoutStatus ==
    (pc = "returned" /\ execution.error.name = "TimeoutError")
    => execution.status = "timeout"

(* C9: when another step is due and the number of steps executed has       *)
(* reached maxSteps, the run fails with the step-limit error and the step  *)
(* is not started; no run executes more than maxSteps steps.               *)
C9_StepLimit ==
    /\ [][(/\ pc = "loop"
           /\ currentStepId # NoStep
           /\ stepsExecuted >= maxSteps)
          => /\ pc' = "returned"
             /\ execution'.status = "failed"
             /\ execution'.error.name = "WorkflowValidationError"
             /\ execution'.error.kind = "steplimit"
             /\ execution'.stepExecutions = execution.stepExecutions]_vars
    /\ [](/\ Len(execution.stepExecutions) <= maxSteps
          /\ Len(execution.stepExecutions) <= workflow.maxSteps
          /\ stepsExecuted <= maxSteps)

C9_Witness ==
    /\ pc = "returned"
    /\ execution.error.kind = "steplimit"
    /\ Len(execution.stepExecutions) = maxSteps
    /\ currentStepId # NoStep

(* C10: within a run at most one step is executing at any time, and a new  *)
(* step begins only after the current one has finished: its handler has    *)
(* returned or its retry attempts, with the sleeps between them, are over. *)
NonTerminalEntries ==
    {i \in DOMAIN execution.stepExecutions :
        execution.stepExecutions[i].status \in {"pending", "running"}}

C10_OneStepAtATime ==
    /\ [](/\ Cardinality(NonTerminalEntries) <= 1
          /\ \A i \in NonTerminalEntries : i = Len(execution.stepExecutions)
          /\ pc \in {"invoke", "sleep", "result", "catch"} =>
                /\ NonTerminalEntries = {Len(execution.stepExecutions)}
                /\ LastStepExecution.stepId = currentStepId
                /\ LastStepExecution.status = "running"
          /\ pc \in {"loop", "returned"} => NonTerminalEntries = {})
    /\ [][Len(execution'.stepExecutions) > Len(execution.stepExecutions)
          => /\ pc = "loop"
             /\ NonTerminalEntries = {}
             /\ Len(execution'.stepExecutions) =
                    Len(execution.stepExecutions) + 1]_vars

C10_Witness ==
    /\ pc = "sleep"
    /\ Len(execution.stepExecutions) = 2
    /\ execution.stepExecutions[1].status = "failed"
    /\ execution.stepExecutions[2].status = "running"

(* C11: when a step's handler has failed (it returned a failure, or threw   *)
(* on every attempt) and the step declares an onFailure target, the step's *)
(* StepExecution is marked failed, the run keeps running, and the next     *)
(* step executed is exactly the onFailure target.                          *)
HandlerFailed ==
    \/ pc = "catch"
    \/ pc = "result" /\ ~result.success

C11_OnFailureRouting ==
    /\ [][(HandlerFailed /\ CurStep.onFailure # NoStep)
          => /\ pc' = "loop"
             /\ currentStepId' = CurStep.onFailure
             /\ execution'.status = "running"
             /\ execution'.error = NoError
             /\ Len(execution'.stepExecutions) = Len(execution.stepExecutions)
             /\ LastStepExecution'.stepId = CurStep.id
             /\ LastStepExecution'.status = "failed"]_vars
    /\ [](\A i \in DOMAIN execution.stepExecutions :
            LET entry == execution.stepExecutions[i]
            IN (entry.status = "failed"
                /\ StepById(entry.stepId).onFailure # NoStep)
               => /\ i < Len(execution.stepExecutions) =>
                        execution.stepExecutions[i + 1].stepId =
                            StepById(entry.stepId).onFailure
                  /\ execution.error.stepId # entry.stepId)

C11_Witness ==
    /\ pc = "returned"
    /\ execution.status = "completed"
    /\ Len(execution.stepExecutions) = 2
    /\ execution.stepExecutions[1].status = "failed"
    /\ execution.stepExecutions[1].error.kind = "handler"
    /\ execution.stepExecutions[1].error.cause = 2
    /\ StepById("s1").onFailure = "s2"
    /\ execution.stepExecutions[2].stepId = "s2"
    /\ execution.stepExecutions[2].status = "completed"

(* the branch a completed CONDITION entry selected, and the other one *)
SelectedBranch(entry) ==
    IF entry.output.conditionMet THEN StepById(entry.stepId).params.onTrue
    ELSE StepById(entry.stepId).params.onFalse

OtherBranch(entry) ==
    IF entry.output.conditionMet THEN StepById(entry.stepId).params.onFalse
    ELSE StepById(entry.stepId).params.onTrue

ExecutedStepIds ==
    {execution.stepExecutions[i].stepId : i \in DOMAIN execution.stepExecutions}

ConditionEntries ==
    {i \in DOMAIN execution.stepExecutions :
        /\ execution.stepExecutions[i].stepType = "CONDITION"
        /\ execution.stepExecutions[i].status = "completed"}

(* C12 as stated: when the expression of a conditional step is true the    *)
(* next step executed is the onTrue target, and the stepExecutions list    *)
(* holds the onTrue branch and never the onFalse branch (symmetrically     *)
(* for false and onFalse).  Read for two branches that name different      *)
(* steps.                                                                  *)
C12_NeverTheOtherBranch ==
    \A i \in ConditionEntries :
        LET entry == execution.stepExecutions[i]
        IN SelectedBranch(entry) # OtherBranch(entry) =>
              /\ i < Len(execution.stepExecutions) =>
                    execution.stepExecutions[i + 1].stepId =
                        SelectedBranch(entry)
              /\ OtherBranch(entry) \notin ExecutedStepIds

(* C12 amended: the step executed right after a conditional step is the    *)
(* target of the branch its expression selected (onTrue for true, onFalse  *)
(* for false); the target of the other branch is executed in that run only *)
(* when it is the same step or is reached from the selected target.        *)
C12_SelectedBranchNext ==
    /\ [][(pc = "result" /\ CurStep.type = "CONDITION" /\ result.success)
          => /\ pc' = "loop"
             /\ currentStepId' =
                    IF result.output.conditionMet THEN CurStep.params.onTrue
                    ELSE CurStep.params.onFalse]_vars
    /\ [](\A i \in ConditionEntries :
            LET entry == execution.stepExecutions[i]
            IN /\ i < Len(execution.stepExecutions) =>
                     execution.stepExecutions[i + 1].stepId =
                         SelectedBranch(entry)
               /\ OtherBranch(entry) \in ExecutedStepIds =>
                     /\ SelectedBranch(entry) # NoStep
                     /\ OtherBranch(entry) \in
                            bfs(workflow, <<SelectedBranch(entry)>>, {}))

C12_Witness ==
    /\ pc = "returned"
    /\ execution.status = "completed"
    /\ StepById("s1").type = "CONDITION"
    /\ StepById("s1").params.onTrue = "s2"
    /\ StepById("s1").params.onFalse = "s3"
    /\ execution.stepExecutions[1].output.conditionMet
    /\ ExecutedStepIds = {"s1", "s2"}

(* C13: when a conditional step has no target for the branch its           *)
(* expression selects (false with no onFalse), no further step is          *)
(* executed and the run ends normally: status completed, no error.         *)
C13_NoBranchEndsRun ==
    /\ [][(/\ pc = "result"
           /\ CurStep.type = "CONDITION"
           /\ result.success
           /\ (IF result.output.conditionMet THEN CurStep.params.onTrue
               ELSE CurStep.params.onFalse) = NoStep)
          => /\ pc' = "loop"
             /\ currentStepId' = NoStep
             /\ execution'.status = "running"]_vars
    /\ [][(pc = "loop" /\ currentStepId = NoStep)
          => /\ pc' = "returned"
             /\ execution'.status = "completed"
             /\ execution'.error = NoError
             /\ Len(execution'.stepExecutions) =
                    Len(execution.stepExecutions)]_vars
    /\ [](\A i \in ConditionEntries :
            SelectedBranch(execution.stepExecutions[i]) = NoStep
            => /\ i = Len(execution.stepExecutions)
               /\ pc \in {"loop", "returned"}
               /\ pc = "loop" => currentStepId = NoStep
               /\ pc = "returned" =>
                     /\ execution.status = "completed"
                     /\ execution.error = NoError)

C13_Witness ==
    /\ pc = "returned"
    /\ execution.status = "completed"
    /\ Len(execution.stepExecutions) = 1
    /\ execution.stepExecutions[1].stepType = "CONDITION"
    /\ execution.stepExecutions[1].status = "completed"
    /\ ~execution.stepExecutions[1].output.conditionMet
    /\ StepById("s1").params.onFalse = NoStep
    /\ StepById("s1").nextStepId = "s3"

(* C14: after a non-conditional step succeeds the next step is onSuccess   *)
(* when it is present, otherwise nextStepId; when neither is present the   *)
(* run ends normally at that step.                                         *)
SuccessTarget(step) ==
    IF step.onSuccess # NoStep THEN step.onSuccess ELSE step.nextStepId

C14_SuccessRouting ==
    /\ [][(pc = "result" /\ CurStep.type # "CONDITION" /\ result.success)
          => /\ pc' = "loop"
             /\ currentStepId' = SuccessTarget(CurStep)
             /\ execution'.status = "running"
             /\ LastStepExecution'.stepId = CurStep.id
             /\ LastStepExecution'.status = "completed"]_vars
    /\ [](\A i \in DOMAIN execution.stepExecutions :
            LET entry == execution.stepExecutions[i]
                target == SuccessTarget(StepById(entry.stepId))
            IN (entry.status = "completed" /\ entry.stepType # "CONDITION")
               => /\ i < Len(execution.stepExecutions) =>
                        execution.stepExecutions[i + 1].stepId = target
                  /\ target # NoStep =>
                        \/ i < Len(execution.stepExecutions)
                        \/ pc = "loop" /\ currentStepId = target
                  /\ target = NoStep =>
                        /\ i = Len(execution.stepExecutions)
                        /\ pc \in {"loop", "returned"}
                        /\ pc = "loop" => currentStepId = NoStep
                        /\ pc = "returned" =>
                              /\ execution.status = "completed"
                              /\ execution.error = NoError)

C14_Witness ==
    /\ pc = "returned"
    /\ execution.status = "completed"
    /\ StepById("s1").type = "LLM"
    /\ StepById("s1").onSuccess = "s2"
    /\ StepById("s1").nextStepId = "s3"
    /\ Len(execution.stepExecutions) = 2
    /\ execution.stepExecutions[1].status = "completed"
    /\ execution.stepExecutions[2].stepId = "s2"
    /\ execution.stepExecutions[2].status = "completed"

(* C15: when a run ends normally (no next step) it is marked completed     *)
(* and its final output equals the output of the last step that completed  *)
(* successfully in that run.                                               *)
CompletedEntries ==
    {i \in DOMAIN execution.stepExecutions :
        execution.stepExecutions[i].status = "completed"}

LastCompletedEntry ==
    execution.stepExecutions[
        CHOOSE i \in CompletedEntries : \A j \in CompletedEntries : j <= i]

C15_FinalOutputOfLastCompleted ==
    (pc = "returned" /\ execution.error = NoError)
    => /\ execution.status = "completed"
       /\ CompletedEntries # {} =>
             execution.outputPayload = LastCompletedEntry.output

(* C16: during a run the stepExecutions list is append-only and holds      *)
(* exactly one entry per attempted step, in the order the steps were       *)
(* started: entries are never removed or reordered, and the retry attempts *)
(* of a step add no entry.                                                 *)
StepsStarted ==
    stepsExecuted
    + (IF pc \in {"invoke", "sleep", "result", "catch"} THEN 1 ELSE 0)
    + (IF pc = "returned" /\ execution.error.kind = "step" THEN 1 ELSE 0)

SameEntryIds(before, after) ==
    \A i \in DOMAIN before :
        /\ after[i].stepId = before[i].stepId
        /\ after[i].stepType = before[i].stepType

C16_AppendOnly ==
    /\ [][LET before == execution.stepExecutions
              after == execution'.stepExecutions
          IN /\ Len(after) >= Len(before)
             /\ SameEntryIds(before, after)
             /\ Len(after) > Len(before) =>
                   /\ pc = "loop"
                   /\ pc' \in {"invoke", "catch"}
                   /\ Len(after) = Len(before) + 1
                   /\ after[Len(after)].stepId = currentStepId
             /\ (pc = "loop" /\ pc' \in {"invoke", "catch"}) =>
                   Len(after) = Len(before) + 1]_vars
    /\ [](Len(execution.stepExecutions) = StepsStarted)

C16_Witness ==
    /\ pc = "invoke"
    /\ attempt = 3
    /\ Len(execution.stepExecutions) = 2
    /\ execution.stepExecutions[1].stepId = "s1"
    /\ execution.stepExecutions[2].stepId = "s2"

(* C17: throughout a run the steps map of the TemplateContext only grows:  *)
(* an entry written for a step id is never removed and never replaced by a *)
(* later write.                                                            *)
C17_ContextStepsOnlyGrow ==
    [][\A stepId \in DOMAIN context.steps :
          /\ stepId \in DOMAIN context'.steps
          /\ context'.steps[stepId] = context.steps[stepId]]_vars

C17_Witness ==
    /\ pc = "returned"
    /\ DOMAIN context.steps = {"s1", "s2"}
    /\ ~context.steps["s1"].output.isNull
    /\ ~context.steps["s2"].output.isNull

(* C18: an entry context.steps[stepId] is written only when the handler of *)
(* that step succeeded; a step whose handler failed leaves the steps map   *)
(* of the TemplateContext unchanged.                                       *)
C18_ContextWrittenOnlyOnSuccess ==
    \A stepId \in DOMAIN context.steps :
        \E i \in DOMAIN execution.stepExecutions :
            /\ execution.stepExecutions[i].stepId = stepId
            /\ execution.stepExecutions[i].status = "completed"

(* C19: when several execute calls run interleaved on the same executor    *)
(* and StepRegistry, the TemplateContext and the WorkflowExecution record  *)
(* of a run are read and written by that run only: a step of one call      *)
(* leaves the frame of every other call as it was, and each record holds   *)
(* only the steps of its own workflow.                                     *)
RunFrame(r) == IF r = self THEN Frame ELSE suspended[r]

FrameStepIds(r) == {RunStepIds(r)[i] : i \in DOMAIN RunStepIds(r)}

C19_RunIsolation ==
    /\ [][\A r \in Runs :
            (self # r \/ self' # r) => RunFrame(r)' = RunFrame(r)]_vars
    /\ [](\A r \in Runs :
            LET f == RunFrame(r)
            IN /\ f.workflow \in RunWorkflows(r)
               /\ \A i \in DOMAIN f.execution.stepExecutions :
                     f.execution.stepExecutions[i].stepId \in FrameStepIds(r)
               /\ DOMAIN f.context.steps \subseteq
                     {f.execution.stepExecutions[i].stepId :
                         i \in DOMAIN f.execution.stepExecutions}
               /\ f.execution.metrics.stepsExecuted
                     <= Len(f.execution.stepExecutions))

C19_Witness ==
    /\ self = 2
    /\ pc = "sleep"
    /\ Len(execution.stepExecutions) = 1
    /\ suspended[1].pc = "invoke"
    /\ Len(suspended[1].execution.stepExecutions) = 2
    /\ DOMAIN suspended[1].context.steps = {"s1"}

(* C20: retry backoff is linear: after failed attempt number k of a step   *)
(* (k < maxAttempts) the executor waits the base delay of the step's retry *)
(* policy multiplied by k before it starts attempt k + 1, and it does not  *)
(* wait after the final attempt.  A declared policy whose backoffMs is 0   *)
(* asks for no delay (the schema admits it: backoffMs min 0).              *)
C20_LinearBackoff ==
    (pc \in {"invoke", "sleep", "result", "catch"} /\ CurStep.retry # NoRetry)
    => /\ \A k \in DOMAIN slept : slept[k] = CurStep.retry.backoffMs * k
       /\ pc = "invoke" => Len(slept) = calls
       /\ pc \in {"sleep", "result"} => Len(slept) = calls - 1
       /\ (pc = "catch" /\ thrown.kind = "handler") =>
             Len(slept) = CurStep.retry.maxAttempts - 1

----------------------------------------------------------------------------
(* The step graph of a workflow, for the claims about the validator: the   *)
(* nodes are step ids, an id stands for the first step that carries it,    *)
(* and the edges are nextStepId, onSuccess, onFailure and, for a           *)
(* conditional step, its branch targets.                                   *)

EdgeTargets(step) ==
    ({step.nextStepId, step.onSuccess, step.onFailure}
     \cup (IF step.type = "CONDITION"
           THEN {step.params.onTrue, step.params.onFalse} ELSE {}))
    \ {NoStep}

Successors(wf, stepId) ==
    IF FindStepIndex(wf.steps, stepId) = 0 THEN {}
    ELSE EdgeTargets(wf.steps[FindStepIndex(wf.steps, stepId)])

RECURSIVE Closure(_, _, _)
Closure(wf, ids, n) ==
    IF n = 0 THEN ids
    ELSE Closure(wf, ids \cup UNION {Successors(wf, id) : id \in ids}, n - 1)

(* the ids reached from a set of ids by zero or more edges *)
ReachableIds(wf, ids) == Closure(wf, ids, Len(wf.steps) + 1)

OnCycle(wf, stepId) ==
    stepId \in ReachableIds(wf, Successors(wf, stepId))

HasReachableCycle(wf) ==
    \E stepId \in ReachableIds(wf, {wf.entryStepId}) : OnCycle(wf, stepId)

(* a path of edges from the entry step that ends on a step it has already  *)
(* passed                                                                  *)
IsCyclePath(wf, path) ==
    /\ Len(path) >= 2
    /\ path[1] = wf.entryStepId
    /\ \A i \in 1..(Len(path) - 1) : path[i + 1] \in Successors(wf, path[i])
    /\ \E i \in 1..(Len(path) - 1) : path[i] = path[Len(path)]

ErrorsOfKind(res, kind) ==
    {i \in DOMAIN res.errors : res.errors[i].kind = kind}

(* C21: for every workflow whose step graph has a cycle reachable from the *)
(* entry step, validate reports the workflow invalid with a cycle error    *)
(* that names the steps on the cycle path.                                 *)
C21_CyclesReported ==
    \A k \in DOMAIN validations :
        HasReachableCycle(workflow)
        => /\ ~validations[k].valid
           /\ \E i \in ErrorsOfKind(validations[k], "circular") :
                 LET paths == validations[k].errors[i].paths
                 IN /\ paths # <<>>
                    /\ \A j \in DOMAIN paths : IsCyclePath(workflow, paths[j])

C21_Witness ==
    /\ validations # <<>>
    /\ HasReachableCycle(workflow)
    /\ \E i \in ErrorsOfKind(validations[1], "circular") :
          validations[1].errors[i].paths = <<<<"s1", "s2", "s3", "s1">>>>
    /\ workflow.steps[3].onFailure = "s1"

(* C22: for every workflow that contains a step not reachable from the     *)
(* entry step by any kind of edge, validate reports the workflow invalid   *)
(* with an error that names that step as unreachable.                      *)
UnreachableIds(wf) == StepIdSet(wf) \ ReachableIds(wf, {wf.entryStepId})

NamedUnreachable(res) ==
    UNION {{res.errors[i].ids[j] : j \in DOMAIN res.errors[i].ids} :
              i \in ErrorsOfKind(res, "unreachable")}

StructuralInvariant(wf) ==
    /\ wf.entryStepId \in StepIdSet(wf)
    /\ \A i, j \in DOMAIN wf.steps : wf.steps[i].id = wf.steps[j].id => i = j
    /\ \A i \in DOMAIN wf.steps : EdgeTargets(wf.steps[i]) \subseteq StepIdSet(wf)

C23_AcceptedIsWellFormed ==
    \A k \in DOMAIN validations :
        validations[k].valid => StructuralInvariant(workflow)

C23_Witness ==
    /\ validations # <<>>
    /\ validations[1].valid
    /\ Len(workflow.steps) = 3
    /\ workflow.steps[1].type = "CONDITION"
    /\ workflow.steps[2].onFailure = "s3"

(* the checks a workflow violates, and the dangling references it holds *)
ViolatedChecks(wf) ==
    {kind \in {"empty", "maxSteps", "duplicate", "entry", "circular",
               "unreachable"} :
        \/ kind = "empty" /\ Len(wf.steps) = 0
        \/ kind = "maxSteps" /\ Len(wf.steps) > wf.maxSteps
        \/ kind = "duplicate" /\ \E i, j \in DOMAIN wf.steps :
                                    i # j /\ wf.steps[i].id = wf.steps[j].id
        \/ kind = "entry" /\ wf.entryStepId \notin StepIdSet(wf)
        \/ kind = "circular" /\ HasReachableCycle(wf)
        \/ kind = "unreachable" /\ UnreachableIds(wf) # {}}

EdgeFields(step) ==
    {"nextStepId", "onSuccess", "onFailure"}
    \cup (IF step.type = "CONDITION" THEN {"onTrue", "onFalse"} ELSE {})

EdgeTarget(step, field) ==
    IF field \in {"onTrue", "onFalse"} THEN step.params[field] ELSE step[field]

DanglingReferences(wf) ==
    {<<ref[1], <<wf.steps[ref[2]].id, EdgeTarget(wf.steps[ref[2]], ref[1])>>>> :
        ref \in {r \in {"nextStepId", "onSuccess", "onFailure", "onTrue",
                        "onFalse"} \X DOMAIN wf.steps :
                   /\ r[1] \in EdgeFields(wf.steps[r[2]])
                   /\ EdgeTarget(wf.steps[r[2]], r[1]) # NoStep
                   /\ EdgeTarget(wf.steps[r[2]], r[1]) \notin StepIdSet(wf)}}

ReportedChecks(res) ==
    {res.errors[i].kind : i \in DOMAIN res.errors}
    \cap {"empty", "maxSteps", "duplicate", "entry", "circular", "unreachable"}

ReportedReferences(res) ==
    {<<res.errors[i].kind, res.errors[i].ids>> :
        i \in {n \in DOMAIN res.errors :
                 res.errors[n].kind \in {"nextStepId", "onSuccess",
                                         "onFailure", "onTrue", "onFalse"}}}

(* C24 as stated: the checks of the validator are independent and not      *)
(* short-circuited: every check the workflow violates (empty step list,    *)
(* step count above the maximum, duplicate ids, missing entry step,        *)
(* dangling references, cycles, unreachable steps) contributes its error   *)
(* to the result, whatever other checks fail.                              *)
C24_EveryViolatedCheckReported ==
    \A k \in DOMAIN validations :
        /\ ViolatedChecks(workflow) \subseteq ReportedChecks(validations[k])
        /\ DanglingReferences(workflow)
              \subseteq ReportedReferences(validations[k])

(* C24 amended: an empty step list is reported alone, validate returning   *)
(* at once; for every other workflow each violated check contributes its   *)
(* error to the same result, whatever other checks fail, and no other      *)
(* error is reported.                                                      *)
C24_AllChecksUnlessEmpty ==
    \A k \in DOMAIN validations :
        IF Len(workflow.steps) = 0
        THEN /\ ReportedChecks(validations[k]) = {"empty"}
             /\ Len(validations[k].errors) = 1
        ELSE /\ ReportedChecks(validations[k]) = ViolatedChecks(workflow)
             /\ ReportedReferences(validations[k]) =
                    DanglingReferences(workflow)
             /\ validations[k].valid <=>
                    (ViolatedChecks(workflow) = {}
                     /\ DanglingReferences(workflow) = {})

C24_Witness ==
    /\ validations # <<>>
    /\ ReportedChecks(validations[1]) =
          {"maxSteps", "duplicate", "circular", "unreachable"}
    /\ ReportedReferences(validations[1]) # {}

(* steps that hold a plain edge, or a branch edge, to the step id t *)
PlainSources(wf, t) ==
    {i \in DOMAIN wf.steps :
        t \in {wf.steps[i].nextStepId, wf.steps[i].onSuccess,
               wf.steps[i].onFailure}}

BranchSources(wf, t) ==
    {i \in DOMAIN wf.steps :
        /\ wf.steps[i].type = "CONDITION"
        /\ t \in {wf.steps[i].params.onTrue, wf.steps[i].params.onFalse}}

(* the steps whose only incoming edges are branch edges of conditional     *)
(* steps, one of them a conditional step the entry step leads to           *)
OnlyBranchTargets(wf) ==
    {t \in StepIdSet(wf) :
        /\ PlainSources(wf, t) = {}
        /\ \E i \in BranchSources(wf, t) :
              /\ FindStepIndex(wf.steps, wf.steps[i].id) = i
              /\ wf.steps[i].id \in ReachableIds(wf, {wf.entryStepId})}

(* C25: a step whose only incoming edges are the true/false branch targets *)
(* of a conditional step is treated as reachable: no unreachable error     *)
(* names it, and a workflow that has such a step and violates no check is  *)
(* accepted.                                                               *)
C25_BranchTargetsReachable ==
    \A k \in DOMAIN validations :
        /\ OnlyBranchTargets(workflow) \cap NamedUnreachable(validations[k])
              = {}
        /\ (/\ OnlyBranchTargets(workflow) # {}
            /\ ViolatedChecks(workflow) = {}
            /\ DanglingReferences(workflow) = {})
           => validations[k].valid

C25_Witness ==
    /\ validations # <<>>
    /\ validations[1].valid
    /\ Len(workflow.steps) = 3
    /\ workflow.steps[1].type = "CONDITION"
    /\ workflow.steps[1].params.onTrue = "s2"
    /\ workflow.steps[1].params.onFalse = "s3"
    /\ OnlyBranchTargets(workflow) = {"s2", "s3"}

RECURSIVE LastRegistered(_, _)
LastRegistered(ops, type) ==
    IF ops = <<>> THEN NoHandler
    ELSE LET last == ops[Len(ops)]
             given == IF last.handlerOrType.kind = "string"
                      THEN last.handler ELSE last.handlerOrType
         IN  IF last.op = "clear" THEN NoHandler
             ELSE IF last.handlerOrType.type # type
                  THEN LastRegistered(SubSeq(ops, 1, Len(ops) - 1), type)
             ELSE IF last.op = "unregister" THEN NoHandler
             ELSE given

(* C27: after any sequence of register, unregister and clear calls, a      *)
(* lookup of a type returns the handler given in the most recent register  *)
(* call for that type that has not since been unregistered or cleared, and *)
(* reports not-found otherwise (get answers undefined, getHandler throws); *)
(* a type is bound to at most one handler.                                 *)
C27_LastRegistrationWins ==
    /\ [](\A type \in StepTypes :
             get(handlers, type) = LastRegistered(registryOps, type))
    /\ [][lookup' # lookup
            => /\ lookup'.handler =
                    LastRegistered(registryOps, lookup'.type)
               /\ lookup'.threw <=>
                    (/\ lookup'.call = "getHandler"
                     /\ LastRegistered(registryOps, lookup'.type) = NoHandler)
         ]_vars

C27_Witness ==
    /\ Len(registryOps) = 3
    /\ registryOps[1].op = "register"
    /\ registryOps[1].handlerOrType.id = "h1"
    /\ registryOps[2].op = "register"
    /\ registryOps[2].handlerOrType.id = "h2"
    /\ registryOps[3].op = "unregister"
    /\ registryOps[3].handlerOrType.type = "CONDITION"
    /\ lookup.call = "get"
    /\ lookup.type = "LLM"
    /\ lookup.handler.id = "h2"

(* the placeholders of a template, from left to right: a placeholder is    *)
(* "{{", one or more characters other than "}", and "}}"                   *)
IsPlaceholder(text, from, to) ==
    /\ to >= from + 4
    /\ to <= Len(text)
    /\ text[from] = "{" /\ text[from + 1] = "{"
    /\ text[to - 1] = "}" /\ text[to] = "}"
    /\ \A k \in (from + 2)..(to - 2) : text[k] # "}"

RECURSIVE PlaceholdersFrom(_, _)
PlaceholdersFrom(text, from) ==
    IF from > Len(text) THEN <<>>
    ELSE IF \E to \in from..Len(text) : IsPlaceholder(text, from, to)
    THEN LET to == CHOOSE k \in from..Len(text) : IsPlaceholder(text, from, k)
         IN  <<[from |-> from, to |-> to]>> \o PlaceholdersFrom(text, to + 1)
    ELSE PlaceholdersFrom(text, from + 1)

Placeholders(text) == PlaceholdersFrom(text, 1)

(* the value the first k parts of a path lead to, Undefined when a part    *)
(* cannot be followed                                                      *)
RECURSIVE ValueAlong(_, _)
ValueAlong(parts, value) ==
    IF parts = <<>> THEN value
    ELSE LET part == Head(parts)
         IN  ValueAlong(Tail(parts),
                 IF part.type = "property" /\ value.t \in {"object", "array"}
                 THEN MemberOf(value, part.name)
                 ELSE IF part.type = "index" /\ value.t = "array"
                 THEN ItemAt(value, part.index)
                 ELSE Undefined)

(* path resolution fails: a property access on a null, undefined or        *)
(* non-object value, or an index access on a non-array                     *)
AccessFails(parts, ctx) ==
    \E k \in DOMAIN parts :
        LET value == ValueAlong(SubSeq(parts, 1, k - 1), ctx)
        IN  \/ value.t \notin {"object", "array"}
            \/ parts[k].type = "index" /\ value.t # "array"

FailingPlaceholders ==
    {i \in DOMAIN Placeholders(template) :
        LET at == Placeholders(template)[i]
            parsed == parsePath(Trim(SubSeq(template, at.from + 2, at.to - 2)))
        IN  parsed.threw \/ AccessFails(parsed.parts, templateContext)}

(* C30: the resolve call never throws, it replaces exactly the             *)
(* placeholders of the template, and every placeholder whose path          *)
(* resolution fails (a property access on a null, undefined or non-object  *)
(* value, or an index access on a non-array) is replaced by its own        *)
(* original text, so that it is left in the result unchanged.              *)
C30_FailedPlaceholdersKept ==
    resolved # NoResolved
    => /\ ~resolved.threw
       /\ Len(resolved.replacements) = Len(Placeholders(template))
       /\ \A i \in DOMAIN resolved.replacements :
             LET at == Placeholders(template)[i]
             IN  /\ resolved.replacements[i].match =
                       SubSeq(template, at.from, at.to)
                 /\ i \in FailingPlaceholders
                    => resolved.replacements[i].by =
                          SubSeq(template, at.from, at.to)
       /\ FailingPlaceholders = DOMAIN Placeholders(template)
          => resolved.result = template

C30_Witness ==
    /\ resolved # NoResolved
    /\ templateContext = MixedContext
    /\ Len(resolved.replacements) = 2
    /\ resolved.replacements[1].path = <<"input", ".", "o", "[", "0", "]">>
    /\ resolved.replacements[2].path = <<"input", ".", "x">>
    /\ FailingPlaceholders = {1}
    /\ resolved.result =
          <<"Q", "{", "{", " ", "input", ".", "o", "[", "0", "]", "}", "}", "s">>

(* what an expression means under a reading of the grammar. The readings   *)
(* differ in the order of NOT and comparison: "claimed" has NOT bind       *)
(* tighter than comparison (the operands of a comparison may be negated),  *)
(* "actual" has comparison bind tighter than NOT (a NOT applies, once, to  *)
(* a comparison, a value or a parenthesized sub-expression, and a          *)
(* comparison is between two values), "generous" lets NOT nest and lets a  *)
(* comparison stand between parenthesized sub-expressions. An expression   *)
(* that has no derivation under the reading means ErrorValue.              *)
ErrorValue == [Undefined EXCEPT !.t = "error"]

IsError(value) == value.t = "error"

Orders == {"claimed", "actual", "generous"}

PathRoots == {"input", "steps", "context"}

NameChars == PathRoots \cup {"true", "false", "null", "0", "1", "x"}

IsPathToken(token) ==
    /\ token # <<>>
    /\ token[1] \in PathRoots
    /\ Len(token) >= 2 => token[2] = "."
    /\ token[Len(token)] # "."
    /\ \A k \in 2..Len(token) :
          /\ token[k] \in NameChars \cup {"."}
          /\ token[k] = "." => token[k - 1] # "."

TokenValue(token, ctx) ==
    IF IsStringToken(token) THEN Str(SubSeq(token, 2, Len(token) - 1))
    ELSE IF IsNumberToken(token) THEN Num(Decimal(token))
    ELSE IF token = <<"true">> THEN Bool(TRUE)
    ELSE IF token = <<"false">> THEN Bool(FALSE)
    ELSE IF token = <<"null">> THEN Null
    ELSE IF IsPathToken(token) THEN ValueAlong(parsePath(token).parts, ctx)
    ELSE ErrorValue

(* the number of parentheses open after the first k tokens *)
RECURSIVE DepthAfter(_, _)
DepthAfter(tokens, k) ==
    IF k = 0 THEN 0
    ELSE DepthAfter(tokens, k - 1)
         + (IF tokens[k] = <<"(">> THEN 1
            ELSE IF tokens[k] = <<")">> THEN -1 ELSE 0)

TopLevel(tokens, ops) ==
    {k \in DOMAIN tokens : tokens[k] \in ops /\ DepthAfter(tokens, k) = 0}

Parenthesized(tokens) ==
    /\ Len(tokens) >= 3
    /\ tokens[1] = <<"(">>
    /\ tokens[Len(tokens)] = <<")">>
    /\ \A k \in 1..(Len(tokens) - 1) : DepthAfter(tokens, k) >= 1

RECURSIVE Meaning(_, _, _, _)
Meaning(tokens, level, order, ctx) ==
    IF level = "logical"
    THEN LET at == TopLevel(tokens, LogicalOps)
             last == CHOOSE k \in at : \A other \in at : other <= k
             left == Meaning(SubSeq(tokens, 1, last - 1), "logical", order, ctx)
             right == Meaning(SubSeq(tokens, last + 1, Len(tokens)),
                              IF order = "claimed" THEN "comparison" ELSE "not",
                              order, ctx)
         IN  IF at = {}
             THEN Meaning(tokens,
                          IF order = "claimed" THEN "comparison" ELSE "not",
                          order, ctx)
             ELSE IF IsError(left) \/ IsError(right) THEN ErrorValue
             ELSE IF tokens[last] = <<"&", "&">>
             THEN Bool(Truthy(left) /\ Truthy(right))
             ELSE Bool(Truthy(left) \/ Truthy(right))
    ELSE IF level = "not"
    THEN LET under == IF order = "claimed" THEN "primary" ELSE "comparison"
             negated == Meaning(Tail(tokens),
                                IF order = "generous" THEN "not" ELSE under,
                                order, ctx)
         IN  IF tokens # <<>> /\ Head(tokens) = <<"!">>
             THEN (IF IsError(negated) THEN ErrorValue
                   ELSE Bool(~Truthy(negated)))
             ELSE Meaning(tokens, under, order, ctx)
    ELSE IF level = "comparison"
    THEN LET at == TopLevel(tokens, ComparisonOps)
             k == CHOOSE only \in at : TRUE
             operand == IF order = "claimed" THEN "not"
                        ELSE IF order = "actual" THEN "value" ELSE "primary"
             left == Meaning(SubSeq(tokens, 1, k - 1), operand, order, ctx)
             right == Meaning(SubSeq(tokens, k + 1, Len(tokens)), operand,
                              order, ctx)
         IN  IF at = {}
             THEN Meaning(tokens, IF order = "claimed" THEN "not" ELSE "primary",
                          order, ctx)
             ELSE IF Cardinality(at) > 1 THEN ErrorValue
             ELSE IF IsError(left) \/ IsError(right) THEN ErrorValue
             ELSE Bool(evaluateComparison(left, tokens[k], right))
    ELSE IF level = "primary"
    THEN (IF Parenthesized(tokens)
          THEN Meaning(SubSeq(tokens, 2, Len(tokens) - 1), "logical", order,
                       ctx)
          ELSE Meaning(tokens, "value", order, ctx))
    ELSE IF Len(tokens) = 1 THEN TokenValue(tokens[1], ctx)
    ELSE ErrorValue

MeaningOf(order) ==
    Meaning(tokenize(expression), "logical", order, expressionContext)

(* an expression conforms to the grammar when it has a derivation under    *)
(* one of the readings                                                     *)
Conforms == \E order \in Orders : ~IsError(MeaningOf(order))

(* C28: for every expression string that does not conform to the           *)
(* expression grammar (empty input, dangling operator, unknown token, any  *)
(* other parse or evaluation failure) and every context, the evaluate call *)
(* returns false and does not throw.                                       *)
C28_MalformedIsFalse ==
    evaluated # NoEvaluated
    => /\ ~evaluated.threw
       /\ ~Conforms => ~evaluated.result

(* C29 as stated: operators bind, from tightest to loosest, as             *)
(* parenthesized sub-expression, unary NOT, comparison, logical AND/OR,    *)
(* with && and || left-associative and evaluated left to right: every      *)
(* expression of that grammar evaluates to what it means under it.         *)
C29_NotBindsTighterThanComparison ==
    evaluated # NoEvaluated /\ ~IsError(MeaningOf("claimed"))
    => evaluated.result = Truthy(MeaningOf("claimed"))

(* C29 amended: operators bind, from tightest to loosest, as parenthesized *)
(* sub-expression, comparison (between two values), unary NOT (applied     *)
(* once, to a comparison, a value or a parenthesized sub-expression),      *)
(* logical AND/OR, with && and || on one level, left-associative and       *)
(* evaluated left to right: every expression of that grammar evaluates to  *)
(* what it means under it.                                                 *)
C29_ComparisonBindsTighterThanNot ==
    evaluated # NoEvaluated /\ ~IsError(MeaningOf("actual"))
    => evaluated.result = Truthy(MeaningOf("actual"))

C29_Witness ==
    /\ evaluated # NoEvaluated
    /\ expression = <<"!", "1", "=", "=", "true">>
    /\ evaluated.result
    /\ ~Truthy(MeaningOf("claimed"))

(* the placeholders whose path leads to no value in the context *)
MissingPlaceholders ==
    {i \in DOMAIN Placeholders(template) :
        LET at == Placeholders(template)[i]
            parsed == parsePath(Trim(SubSeq(template, at.from + 2, at.to - 2)))
        IN  /\ ~parsed.threw
            /\ ValueAlong(parsed.parts, templateContext).t = "undefined"}

(* C31 as stated: a placeholder whose path is missing from the context is  *)
(* replaced with the empty string in the resolved output.                  *)
C31_MissingPathIsEmpty ==
    resolved # NoResolved
    => \A i \in MissingPlaceholders : resolved.replacements[i].by = <<>>

(* C31 amended: a placeholder whose path is missing from the context is    *)
(* replaced with the empty string when every access of the path is made on *)
(* an object or an array (only the last member or element is missing); it  *)
(* is left as written when an access is made on a missing, null or         *)
(* non-object value.                                                       *)
C31_MissingLastMemberIsEmpty ==
    resolved # NoResolved
    => \A i \in MissingPlaceholders :
          resolved.replacements[i].by =
             IF i \in FailingPlaceholders
             THEN resolved.replacements[i].match ELSE <<>>

C31_Witness ==
    /\ resolved # NoResolved
    /\ templateContext = MixedContext
    /\ template = <<"Q", "{", "{", "input", ".", "u", "}", "}">>
    /\ MissingPlaceholders = {1}
    /\ FailingPlaceholders = {}
    /\ resolved.result = <<"Q">>

(* C32: in a run of a workflow the validator accepted no step id appears   *)
(* more than once in stepExecutions, so the loop makes at most             *)
(* steps.length step executions, and when every handler call returns or    *)
(* rejects the call of execute comes to its end.                           *)
NoStepEnteredTwice ==
    /\ \A i, j \in DOMAIN execution.stepExecutions :
          execution.stepExecutions[i].stepId = execution.stepExecutions[j].stepId
          => i = j
    /\ Len(execution.stepExecutions) <= Len(workflow.steps)
    /\ stepsExecuted <= Len(workflow.steps)
    /\ (pc = "invoke" => calls < maxAttempts(CurStep))

C32_NoStepEnteredTwice ==
    /\ []NoStepEnteredTwice
    /\ <>(pc \in {"returned", "thrown"})

C32_Witness ==
    /\ pc = "returned"
    /\ execution.status = "completed"
    /\ Len(workflow.steps) = 2
    /\ Len(execution.stepExecutions) = 2
    /\ stepsExecuted = 2
    /\ workflow.steps[1].type = "CONDITION"
    /\ workflow.steps[1].params.onTrue = GraphIdSeq[2]

(* C33: in a run of a workflow the validator accepted, every id the        *)
(* executor selects as the next step (nextStepId, onSuccess, onFailure or  *)
(* the branch target of a conditional step's output) is the id of a step   *)
(* of the workflow, and the run never fails with 'Step not found'.         *)
C33_SelectedStepExists ==
    /\ currentStepId \in StepIdSet(workflow) \cup {NoStep}
    /\ execution.error.kind # "notfound"
    /\ (pc = "result"
        => NextStepId(CurStep, result) \in StepIdSet(workflow) \cup {NoStep})
    /\ (pc = "catch" => CurStep.onFailure \in StepIdSet(workflow) \cup {NoStep})

C33_Witness ==
    /\ pc = "loop"
    /\ stepsExecuted = 1
    /\ currentStepId = GraphIdSeq[2]
    /\ workflow.steps[1].type = "CONDITION"
    /\ execution.stepExecutions[1].output.nextStep = GraphIdSeq[2]
    /\ FindStepIndex(workflow.steps, currentStepId) = 2

(* C34: during a run at most one StepExecution entry is pending or         *)
(* running, and it is the entry appended last; when execute has returned   *)
(* no entry is pending or running.                                         *)
NonTerminal ==
    {i \in DOMAIN execution.stepExecutions :
        execution.stepExecutions[i].status \in {"pending", "running"}}

C34_OneOpenEntryAtMost ==
    /\ NonTerminal \subseteq {Len(execution.stepExecutions)}
    /\ (pc \in {"returned", "thrown"} => NonTerminal = {})
    /\ (pc \in {"invoke", "sleep", "result", "catch"}
        => NonTerminal = {Len(execution.stepExecutions)})

C34_Witness ==
    /\ pc = "sleep"
    /\ Len(execution.stepExecutions) = 2
    /\ NonTerminal = {2}
    /\ execution.stepExecutions[1].status = "failed"
    /\ execution.stepExecutions[2].status = "running"

(* the time the current step has taken at most: its handler calls and its  *)
(* backoff sleeps                                                          *)
RECURSIVE SleptSum(_)
SleptSum(sleeps) ==
    IF sleeps = <<>> THEN 0 ELSE Head(sleeps) + SleptSum(Tail(sleeps))

Overrun == timeoutMs # 0 /\ now - startTime > timeoutMs

(* C35 as stated: a run whose elapsed time exceeds the maximum execution   *)
(* duration in force is never returned with status completed.              *)
C35_OverrunNeverCompleted ==
    pc = "returned" /\ Overrun => execution.status # "completed"

(* C35 amended: a run whose elapsed time exceeds the maximum execution     *)
(* duration when a further step is about to start is failed and never      *)
(* returned completed; a completed run exceeds the maximum by no more      *)
(* than the time its last step took.                                       *)
C35_OverrunBeforeStepFails ==
    /\ [][pc = "loop" /\ currentStepId # NoStep /\ Overrun
          => pc' = "returned" /\ execution'.status = "failed"]_vars
    /\ [](pc = "returned" /\ execution.status = "completed" /\ timeoutMs # 0
          => now - startTime
                <= timeoutMs + calls * MaxDelay + SleptSum(slept))

C35_Witness ==
    /\ pc = "returned"
    /\ execution.status = "failed"
    /\ execution.error.kind = "timeout"
    /\ Len(execution.stepExecutions) = 1
    /\ execution.stepExecutions[1].status = "completed"
    /\ Overrun

(* C36: whenever execute returns a WorkflowExecution, whatever its status, *)
(* metrics.stepsExecuted equals the number of entries in stepExecutions.   *)
C36_StepsExecutedCountsEntries ==
    pc = "returned"
    => execution.metrics.stepsExecuted = Len(execution.stepExecutions)

(* C37: while the breaker is open and less than resetTimeout has elapsed   *)
(* since its last recorded failure, a call of execute throws 'Circuit      *)
(* breaker is open', does not invoke the wrapped function and leaves the   *)
(* breaker as it is.                                                       *)
C37_OpenRejects ==
    [][/\ breaker.state = "open"
       /\ breaker.lastFailureTime # 0
       /\ clock - breaker.lastFailureTime < breakerConfig.resetTimeout
       /\ outcome'.call = "execute"
       /\ clock' = clock
       => /\ outcome'.threw
          /\ ~outcome'.invoked
          /\ inFlight' = inFlight
          /\ breaker' = breaker]_vars

C37_Witness ==
    /\ outcome = [call |-> "execute", threw |-> TRUE, invoked |-> FALSE]
    /\ breaker.state = "open"
    /\ breaker.lastFailureTime # 0
    /\ clock - breaker.lastFailureTime < breakerConfig.resetTimeout
    /\ clock > breaker.lastFailureTime
    /\ inFlight = 1

(* C38: a half-open breaker returns to closed only when a call succeeds    *)
(* and the three calls that ended last all succeeded, and a call that      *)
(* fails while the breaker is half-open returns it to open.                *)
C38_ThreeSuccessesToClose ==
    [][breaker.state = "half-open" /\ history' # history
       => /\ (history'[Len(history')] = "failure"
              => breaker'.state = "open")
          /\ (breaker'.state = "closed"
              => /\ Len(history') >= SuccessesToClose
                 /\ \A k \in 0..(SuccessesToClose - 1) :
                       history'[Len(history') - k] = "success")]_vars

(* the calls on a key that were answered allowed at a time in [from, to) *)
AllowedIn(key, from, to) ==
    {i \in DOMAIN answers :
        /\ answers[i].key = key
        /\ answers[i].allowed
        /\ from <= answers[i].at
        /\ answers[i].at < to}

(* C39: for every key, in every time window of length windowMs at most     *)
(* maxRequests of the checkLimit calls made are answered allowed.          *)
C39_AtMostMaxRequestsPerWindow ==
    \A i \in DOMAIN answers :
       \A from \in (1 - limiterConfig.windowMs)..clock :
          Cardinality(AllowedIn(answers[i].key, from,
                                from + limiterConfig.windowMs))
             <= limiterConfig.maxRequests

C39_Witness ==
    /\ Len(answers) = 4
    /\ limiterConfig = [maxRequests |-> 2, windowMs |-> 2]
    /\ \A i \in DOMAIN answers : answers[i].key = answers[1].key
    /\ answers[1].allowed /\ answers[1].at = 1
    /\ answers[2].allowed /\ answers[2].at = 2
    /\ ~answers[3].allowed /\ answers[3].at = 2
    /\ answers[4].allowed /\ answers[4].at = 3
    /\ Cardinality(AllowedIn(answers[1].key, 1, 3)) = 2

(* the entry whose most recent access is the oldest *)
LeastRecentlyUsed ==
    LET held == SelectSeq(accesses, LAMBDA k : k \in StoreKeys(store))
    IN IF held = <<>> THEN {} ELSE {Head(held)}

(* C40: when set inserts a new key into a cache that holds maxSize         *)
(* entries, exactly one entry is evicted and it is the least recently used *)
(* one, so the cache never holds more than maxSize entries.                *)
C40_EvictsLeastRecentlyUsed ==
    /\ [](Len(store) <= MaxSize(cacheOptions))
    /\ [][/\ Len(store) >= MaxSize(cacheOptions)
          /\ StoreKeys(store') \ StoreKeys(store) # {}
          => StoreKeys(store) \ StoreKeys(store') = LeastRecentlyUsed]_vars

====
